---------------------------- MODULE Spec2Model ----------------------------
(***************************************************************************)
(* Budget optimizer of the travel itinerary generator (budget.ts).         *)
(*                                                                         *)
(* Numbers are exact rationals <<n, d>> in lowest terms (d > 0); strings   *)
(* are sequences of one-character strings, so that parseCurrency and       *)
(* formatCurrency are computed character by character.  JavaScript values  *)
(* that may be a string, a number or undefined are records                 *)
(* [t |-> "str" | "num" | "undef", s |-> chars, n |-> rational].         *)
(***************************************************************************)
EXTENDS Integers, Sequences, FiniteSets, TLC

(***************************************************************************)
(* Bounds of the model.                                                    *)
(***************************************************************************)
MaxDays == 2

(***************************************************************************)
(* Exact rational arithmetic.                                              *)
(***************************************************************************)
Abs(x) == IF x < 0 THEN -x ELSE x

RECURSIVE GCD(_, _)
GCD(a, b) == IF b = 0 THEN a ELSE GCD(b, a % b)

Rat(n, d) ==
    LET g == GCD(Abs(n), Abs(d))
        sg == IF d < 0 THEN -1 ELSE 1
    IN  <<sg * (n \div g), sg * (d \div g)>>

RInt(k) == <<k, 1>>
RZero == <<0, 1>>
RAdd(a, b) == Rat(a[1] * b[2] + b[1] * a[2], a[2] * b[2])
RSub(a, b) == Rat(a[1] * b[2] - b[1] * a[2], a[2] * b[2])
RMul(a, b) ==
    \* cross-reduce first to keep the products small
    LET x == Rat(a[1], b[2])
        y == Rat(b[1], a[2])
    IN  <<x[1] * y[1], x[2] * y[2]>>
RLeq(a, b) == a[1] * b[2] <= b[1] * a[2]
RLt(a, b) == a[1] * b[2] < b[1] * a[2]
RMin(a, b) == IF RLeq(a, b) THEN a ELSE b

\* a / b as JavaScript computes it for a >= 0, b >= 0: a positive number
\* divided by zero is Infinity, and 0 / 0 is NaN
RDivKind(a, b) ==
    IF b[1] # 0 THEN "finite" ELSE IF a[1] = 0 THEN "nan" ELSE "infinity"
RDiv(a, b) == Rat(a[1] * b[2], a[2] * b[1])

(***************************************************************************)
(* JavaScript values.                                                      *)
(***************************************************************************)
Str(s) == [t |-> "str", s |-> s, n |-> RZero]
Num(r) == [t |-> "num", s |-> <<>>, n |-> r]
Undefined == [t |-> "undef", s |-> <<>>, n |-> RZero]

Digits == <<"0", "1", "2", "3", "4", "5", "6", "7", "8", "9">>
IsDigit(c) == \E i \in 1..10 : Digits[i] = c
DigitVal(c) == (CHOOSE i \in 1..10 : Digits[i] = c) - 1

RECURSIVE Pow10(_)
Pow10(k) == IF k = 0 THEN 1 ELSE 10 * Pow10(k - 1)

RECURSIVE FilterOut(_, _)
\* String.prototype.replace(/[...]/g, ''): drop every character of the class
FilterOut(s, class) ==
    IF s = <<>> THEN <<>>
    ELSE IF Head(s) \in class THEN FilterOut(Tail(s), class)
    ELSE <<Head(s)>> \o FilterOut(Tail(s), class)

RECURSIVE TrimLeft(_)
TrimLeft(s) ==
    IF s # <<>> /\ Head(s) = " " THEN TrimLeft(Tail(s)) ELSE s

RECURSIVE TrimRight(_)
TrimRight(s) ==
    IF s # <<>> /\ s[Len(s)] = " " THEN TrimRight(SubSeq(s, 1, Len(s) - 1)) ELSE s

Trim(s) == TrimRight(TrimLeft(s))

RECURSIVE DigitRun(_)
\* length of the longest prefix of s made of decimal digits
DigitRun(s) ==
    IF s # <<>> /\ IsDigit(Head(s)) THEN 1 + DigitRun(Tail(s)) ELSE 0

RECURSIVE DigitsToInt(_)
DigitsToInt(s) ==
    IF s = <<>> THEN 0
    ELSE 10 * DigitsToInt(SubSeq(s, 1, Len(s) - 1)) + DigitVal(s[Len(s)])

\* parseFloat: leading blanks are skipped, then the longest prefix of the form
\* [+-] digits [. digits] is read (at least one digit); anything after it is
\* ignored.  nan is TRUE when no number can be read.  (Exponents and
\* "Infinity" are outside the alphabet of the cost strings considered.)
parseFloat(str) ==
    LET s0 == TrimLeft(str)
        neg == s0 # <<>> /\ Head(s0) = "-"
        s1 == IF s0 # <<>> /\ Head(s0) \in {"-", "+"} THEN Tail(s0) ELSE s0
        ni == DigitRun(s1)
        s2 == SubSeq(s1, ni + 1, Len(s1))
        hasDot == s2 # <<>> /\ Head(s2) = "."
        s3 == IF hasDot THEN Tail(s2) ELSE <<>>
        nf == DigitRun(s3)
        mant == DigitsToInt(SubSeq(s1, 1, ni) \o SubSeq(s3, 1, nf))
        val == Rat(IF neg THEN -mant ELSE mant, Pow10(nf))
    IN  IF ni + nf = 0 THEN [nan |-> TRUE, val |-> RZero]
        ELSE [nan |-> FALSE, val |-> val]

\* the character class of parseCurrency without the comma
CurrencySymbolsWithoutComma == {"$", "€", "£", "¥"}

CurrencySymbols == {"$", ",", "€", "£", "¥"}


\* parseCurrency raising on an unparseable string instead of yielding 0
parseCurrencyStrict(currencyString) ==
    IF currencyString.t = "undef" THEN [threw |-> FALSE, val |-> RZero]
    ELSE IF currencyString.t = "num" THEN
        IF currencyString.n[1] = 0 THEN [threw |-> FALSE, val |-> RZero]
        ELSE [threw |-> TRUE, val |-> RZero]
    ELSE IF currencyString.s = <<>> THEN [threw |-> FALSE, val |-> RZero]
    ELSE LET f == parseFloat(Trim(FilterOut(currencyString.s, CurrencySymbols)))
         IN  [threw |-> f.nan, val |-> IF f.nan THEN RZero ELSE f.val]

\* budget.ts parseCurrency: a falsy argument ('' , undefined, 0) yields 0; a
\* truthy non-string has no replace method, which raises a TypeError
\* (threw = TRUE); otherwise the symbols and commas are removed, the rest is
\* trimmed and parsed, and NaN is replaced by 0.
parseCurrency(currencyString) ==
    IF currencyString.t = "undef" THEN [threw |-> FALSE, val |-> RZero]
    ELSE IF currencyString.t = "num" THEN
        IF currencyString.n[1] = 0 THEN [threw |-> FALSE, val |-> RZero]
        ELSE [threw |-> TRUE, val |-> RZero]
    ELSE IF currencyString.s = <<>> THEN [threw |-> FALSE, val |-> RZero]
    ELSE LET numericString == Trim(FilterOut(currencyString.s, CurrencySymbols))
             f == parseFloat(numericString)
         IN  [threw |-> FALSE, val |-> IF f.nan THEN RZero ELSE f.val]

\* the value of a cost that is known to parse
Amount(v) == parseCurrency(v).val

RECURSIVE IntToDigits(_)
IntToDigits(k) ==
    IF k < 10 THEN <<Digits[k + 1]>>
    ELSE IntToDigits(k \div 10) \o <<Digits[(k % 10) + 1]>>

RECURSIVE GroupThousands(_)
\* en-US grouping: a comma before every block of three digits from the right
GroupThousands(ds) ==
    IF Len(ds) <= 3 THEN ds
    ELSE GroupThousands(SubSeq(ds, 1, Len(ds) - 3)) \o <<",">>
         \o SubSeq(ds, Len(ds) - 2, Len(ds))

\* the amount in cents, rounded half away from zero (Intl roundingMode
\* "halfExpand", the default)
RoundToCents(x) ==
    LET a == Abs(x[1])
        whole == a \div x[2]
        rest == a % x[2]
        q == 100 * whole + ((200 * rest + x[2]) \div (2 * x[2]))
    IN  IF x[1] < 0 THEN -q ELSE q

\* budget.ts formatCurrency: Intl.NumberFormat('en-US', currency USD, exactly
\* two fraction digits)
formatCurrency(amount) ==
    LET c == RoundToCents(amount)
        a == Abs(c)
        frac == a % 100
    IN  (IF amount[1] < 0 THEN <<"-">> ELSE <<>>) \o <<"$">>
        \o GroupThousands(IntToDigits(a \div 100)) \o <<".">>
        \o <<Digits[(frac \div 10) + 1], Digits[(frac % 10) + 1]>>

(***************************************************************************)
(* Itineraries (utils.ts, interfaces Activity, Day, Itinerary).  An object *)
(* property that may be absent carries an "exists" flag.                   *)
(***************************************************************************)
Activity(name, cost) == [name |-> name, cost |-> cost]
Part(cost) == [exists |-> TRUE, cost |-> cost]
Missing == [exists |-> FALSE, cost |-> Undefined]
NoAlternatives == [exists |-> FALSE, list |-> <<>>]
Day(acc, tr, acts) ==
    [accommodation |-> acc, transportation |-> tr, activities |-> acts,
     alternativeActivities |-> NoAlternatives]
Itinerary(dest, total, days) ==
    [destination |-> dest, totalCost |-> total, days |-> days]

RECURSIVE SumRat(_)
SumRat(seq) == IF seq = <<>> THEN RZero ELSE RAdd(Head(seq), SumRat(Tail(seq)))

ActivityCosts(day) == [j \in DOMAIN day.activities |-> Amount(day.activities[j].cost)]

\* reading day.accommodation.cost or day.transportation.cost of an absent
\* object, or parsing a truthy non-string, raises a TypeError
DayThrows(day) ==
    \/ ~day.accommodation.exists
    \/ parseCurrency(day.accommodation.cost).threw
    \/ ~day.transportation.exists
    \/ parseCurrency(day.transportation.cost).threw
    \/ \E j \in DOMAIN day.activities : parseCurrency(day.activities[j].cost).threw

\* budget.ts analyzeBudgetAllocation
analyzeBudgetAllocation(itin) ==
    LET days == itin.days IN
    IF \E i \in DOMAIN days : DayThrows(days[i])
    THEN [threw |-> TRUE, accommodation |-> RZero, activities |-> RZero,
          transportation |-> RZero]
    ELSE [threw |-> FALSE,
          accommodation |-> SumRat([i \in DOMAIN days |-> Amount(days[i].accommodation.cost)]),
          activities |-> SumRat([i \in DOMAIN days |-> SumRat(ActivityCosts(days[i]))]),
          transportation |-> SumRat([i \in DOMAIN days |-> Amount(days[i].transportation.cost)])]

\* calculateTotalCost without the inner loop over the activities
calculateTotalCostWithoutActivities(days) ==
    SumRat([i \in DOMAIN days |->
        RAdd(Amount(days[i].accommodation.cost), Amount(days[i].transportation.cost))])

\* budget.ts calculateTotalCost
calculateTotalCost(days) ==
    SumRat([i \in DOMAIN days |->
        RAdd(RAdd(Amount(days[i].accommodation.cost),
                  Amount(days[i].transportation.cost)),
             SumRat(ActivityCosts(days[i])))])

\* the category caps written in optimizeAccommodation, optimizeActivities
\* and optimizeTransportation
AccommodationCap == <<1, 2>>
ActivitiesCap == <<2, 5>>
\* 0.55 written for 0.45
TransportationCapSwapped == <<11, 20>>
TransportationCap == <<9, 20>>
\* the extra share taken from the most expensive activity of a day
TopActivityBoost == <<6, 5>>
\* the price of a budget alternative relative to the activity
\* 0.4 ("40% cheaper") written for 0.6
AlternativeFactorForty == <<2, 5>>
AlternativeFactor == <<3, 5>>

\* the cap is always applied, whatever the savings needed
ReductionPercentageAlwaysCap(savings, total, cap) == cap

\* Math.min(savingsNeeded / total, cap): Infinity (total = 0 < savings) gives
\* the cap.  savingsNeeded > 0 on this path, so 0 / 0 = NaN does not arise;
\* a NaN reduction would turn every cost into a string that parses as 0.
ReductionPercentage(savings, total, cap) ==
    IF RDivKind(savings, total) = "finite" THEN RMin(RDiv(savings, total), cap)
    ELSE IF RDivKind(savings, total) = "infinity" THEN cap
    ELSE <<1, 1>>

ReducedCost(cost, reduction) ==
    Str(formatCurrency(RMul(Amount(cost), RSub(<<1, 1>>, reduction))))

\* optimizeAccommodation with the 1.2 boost of optimizeActivities
optimizeAccommodationBoosted(days, savings, total) ==
    LET reductionPercentage ==
            RMul(ReductionPercentage(savings, total, AccommodationCap), TopActivityBoost)
    IN  [i \in DOMAIN days |->
            [days[i] EXCEPT !.accommodation.cost =
                ReducedCost(days[i].accommodation.cost, reductionPercentage)]]

\* budget.ts optimizeAccommodation, as a function of the days array
optimizeAccommodation(days, savings, total) ==
    LET reductionPercentage == ReductionPercentage(savings, total, AccommodationCap)
    IN  [i \in DOMAIN days |->
            [days[i] EXCEPT !.accommodation.cost =
                ReducedCost(days[i].accommodation.cost, reductionPercentage)]]

\* budget.ts optimizeTransportation
optimizeTransportation(days, savings, total) ==
    LET reductionPercentage == ReductionPercentage(savings, total, TransportationCap)
    IN  [i \in DOMAIN days |->
            [days[i] EXCEPT !.transportation.cost =
                ReducedCost(days[i].transportation.cost, reductionPercentage)]]

RECURSIVE InsertByCost(_, _, _)
\* insert index j into the list of indices order, kept by cost descending,
\* after every index of equal cost (Array.prototype.sort is stable)
InsertByCost(order, j, acts) ==
    IF order = <<>> THEN <<j>>
    ELSE IF RLt(Amount(acts[Head(order)].cost), Amount(acts[j].cost))
         THEN <<j>> \o order
         ELSE <<Head(order)>> \o InsertByCost(Tail(order), j, acts)

RECURSIVE SortedOrder(_, _)
\* [...day.activities].sort((a, b) => parseCurrency(b.cost) - parseCurrency(a.cost))
\* as the list of positions in day.activities of the sorted elements (the
\* copy is shallow: its elements are the activity objects of the day)
SortedOrder(acts, k) ==
    IF k = 0 THEN <<>> ELSE InsertByCost(SortedOrder(acts, k - 1), k, acts)

\* day.activities.findIndex(a => a.name === name); 0 stands for -1
FindIndexByName(acts, name) ==
    IF \E i \in DOMAIN acts : acts[i].name = name
    THEN CHOOSE i \in DOMAIN acts :
            /\ acts[i].name = name
            /\ \A k \in 1..(i - 1) : acts[k].name # name
    ELSE 0

RECURSIVE ReduceSorted(_, _, _, _)
\* the forEach over sortedActivities: step index reads the current cost of
\* the sorted element and writes the reduced cost to the first activity of
\* the day bearing the same name
ReduceSorted(acts, order, index, reductionPercentage) ==
    IF index > Len(order) THEN acts
    ELSE LET activity == acts[order[index]]
             adjustedReduction ==
                 IF index = 1 THEN RMul(reductionPercentage, TopActivityBoost)
                 ELSE reductionPercentage
             originalIndex == FindIndexByName(acts, activity.name)
             updated ==
                 IF originalIndex # 0
                 THEN [acts EXCEPT ![originalIndex].cost =
                          ReducedCost(activity.cost, adjustedReduction)]
                 ELSE acts
         IN  ReduceSorted(updated, order, index + 1, reductionPercentage)

\* budget.ts optimizeActivities
optimizeActivities(days, savings, total) ==
    LET reductionPercentage == ReductionPercentage(savings, total, ActivitiesCap)
    IN  [i \in DOMAIN days |->
            [days[i] EXCEPT !.activities =
                ReduceSorted(days[i].activities,
                             SortedOrder(days[i].activities, Len(days[i].activities)),
                             1, reductionPercentage)]]

BudgetPrefix == <<"B", "u", "d", "g", "e", "t", " ">>

\* addBudgetAlternatives putting the alternatives in the place of the
\* activities instead of adding them
addBudgetAlternativesReplacing(days) ==
    [i \in DOMAIN days |->
        [days[i] EXCEPT !.activities =
            [j \in DOMAIN days[i].activities |->
                Activity(BudgetPrefix \o days[i].activities[j].name,
                         days[i].activities[j].cost)]]]

\* budget.ts addBudgetAlternatives
addBudgetAlternatives(days) ==
    [i \in DOMAIN days |->
        [days[i] EXCEPT !.alternativeActivities =
            [exists |-> TRUE,
             list |-> [j \in DOMAIN days[i].activities |->
                 Activity(BudgetPrefix \o days[i].activities[j].name,
                          Str(formatCurrency(RMul(Amount(days[i].activities[j].cost),
                                                  AlternativeFactor))))]]]]

(***************************************************************************)
(* Inputs.  Cost strings are currency strings of at most two fraction      *)
(* digits, as the itinerary generators and the prompt of utils.ts ask for, *)
(* or free text; budgets are amounts of whole cents.                       *)
(***************************************************************************)
Usd(cents) == Str(formatCurrency(Rat(cents, 100)))
Range == Str(<<"$", "2", "0", "-", "3", "0">>)
FreeText == Str(<<"T", "B", "D">>)
Empty == Str(<<>>)
NameA == <<"A">>
NameB == <<"B">>
NameC == <<"C">>

DayCatalogue ==
    { Day(Part(Usd(12000)), Part(Usd(1000)),
          <<Activity(NameA, Usd(2500)), Activity(NameB, Usd(1500))>>),
      Day(Part(Usd(2500)), Part(Usd(2500)), <<Activity(NameA, Usd(2500))>>),
      Day(Part(Usd(3)), Part(Usd(2)), <<>>),
      Day(Part(Usd(1)), Part(Usd(2)), <<>>),
      Day(Part(Usd(1000)), Part(Usd(12000)),
          <<Activity(NameA, Usd(2500)), Activity(NameB, Usd(1500))>>),
      Day(Part(Usd(1000)), Part(Usd(1000)),
          <<Activity(NameA, Usd(1000)), Activity(NameA, Usd(3000))>>),
      Day(Part(Usd(1000)), Part(Usd(1000)),
          <<Activity(NameA, Usd(3000)), Activity(NameB, Usd(3000))>>),
      Day(Part(Usd(1000)), Part(Usd(4000)),
          <<Activity(NameA, Usd(2500)), Activity(NameB, Usd(1500))>>),
      Day(Part(Range), Part(Empty),
          <<Activity(NameC, FreeText), Activity(NameB, Range)>>),
      Day(Part(Usd(0)), Part(Undefined), <<>>),
      Day(Missing, Part(Usd(1000)), <<Activity(NameA, Usd(2500))>>),
      Day(Part(Usd(12000)), Part(Num(RInt(15))), <<>>) }

RECURSIVE SeqsUpTo(_, _)
\* the sequences over S of length at most n
SeqsUpTo(S, n) ==
    IF n = 0 THEN {<<>>}
    ELSE LET shorter == SeqsUpTo(S, n - 1)
         IN  shorter \cup {Append(q, x) : q \in shorter, x \in S}

\* the stated total: the sum of the day costs when they can be read, or one
\* of a few strings and numbers unrelated to the days
StatedTotals(days) ==
    (IF \E i \in DOMAIN days : DayThrows(days[i]) THEN {}
     ELSE {Str(formatCurrency(calculateTotalCost(days)))})
    \cup {Str(<<"$", "1", ",", "4", "5", "0">>), Usd(10000), Empty, FreeText,
          Num(RInt(340))}

Budgets == {RZero, <<1, 50>>, RInt(100), RInt(300), RInt(1450)}

Destination == "Paris"

(***************************************************************************)
(* optimizeBudget as a process.  The caller's itinerary and the deep copy  *)
(* are objects of a heap, so that writing through one reference is seen    *)
(* through every other reference to the same object.                       *)
(***************************************************************************)
VARIABLES
    pc,                  \* position in optimizeBudget
    heap,                \* the itinerary objects, by reference
    input,               \* the value of the argument when the call was made
    totalBudget,         \* the second argument
    savingsNeeded,       \* local of optimizeBudget
    optimizedItinerary,  \* local of optimizeBudget: reference of the copy
    budgetBreakdown,     \* local of optimizeBudget
    reduced,             \* the category whose optimize function was called
    reductionPercentage, \* local of that optimize function
    returned,            \* the reference the promise resolves with
    path                 \* which return statement was taken

\* the rate limiter of middleware.ts and its clock
VARIABLES
    env,                 \* process.env.NODE_ENV
    now,                 \* Date.now(), in milliseconds
    rateLimitStore,      \* module-level store: key -> {count, timestamp}
    response,            \* what middleware last returned to the watched client
    watched,             \* the client and route class whose admissions are logged
    admitted,            \* admissions of the watched client in the last window
    background           \* requests made so far by every other client

middlewareVars == <<env, now, rateLimitStore, response, watched, admitted,
                    background>>

\* previous: the status of the response the watched client had before
NoResponse == [status |-> 0, remaining |-> 0, retryAfter |-> 0, previous |-> 0]

\* the rate limiter before any request
MiddlewareIdle ==
    /\ env = "production"
    /\ now = 0
    /\ rateLimitStore = <<>>
    /\ response = NoResponse
    /\ watched = <<"none", "none">>
    /\ admitted = <<>>
    /\ background = 0

\* the response cache of api-cache.ts
VARIABLES
    cache,               \* module-level cache: key -> {data, timestamp, expiresAt}
    called,              \* the last call made on the cache and what it returned
    written              \* for every key, the last cacheResponse made for it

cacheVars == <<cache, called, written>>

NoCall == [op |-> "none", key |-> "", value |-> "null", at |-> 0]

\* the cache before any call
CacheIdle ==
    /\ cache = <<>>
    /\ called = NoCall
    /\ written = <<>>

\* calls of the inventory generators and of the pure utilities
VARIABLES
    request,             \* the function called and its arguments
    reply,               \* what the call returned
    again                \* what a second call with the same arguments returned

generatorVars == <<request, reply, again>>

NoRequest == [fn |-> "none"]

NoReply == [made |-> FALSE, value |-> 0]

\* no generator has been called
GeneratorIdle ==
    /\ request = NoRequest
    /\ reply = NoReply
    /\ again = NoReply

\* one POST /api/itinerary request: where the handler stands, the request
\* body, what the four inventory calls gave and the status answered
VARIABLES post

NoPost ==
    [stage |-> "idle", body |-> <<>>, results |-> <<>>, thrown |-> "none",
     status |-> 0]

PostIdle == post = NoPost

\* the saved trips of storage.ts
VARIABLES
    savedTrips,          \* the list under localStorage key btc_saved_trips
    tripCall             \* the last call on the list; calls made, by kind

storageVars == <<savedTrips, tripCall>>

NoTripCall ==
    [op |-> "none", id |-> 0, saved |-> 0, updated |-> 0, deleted |-> 0]

\* the empty store
StorageIdle ==
    /\ savedTrips = <<>>
    /\ tripCall = NoTripCall

serviceVars == <<middlewareVars, cacheVars, generatorVars, post, storageVars>>

vars == <<pc, heap, input, totalBudget, savingsNeeded, optimizedItinerary,
          budgetBreakdown, reduced, reductionPercentage, returned, path,
          serviceVars>>

ArgRef == "argument"
FreshRef == "copy"
Refs == {ArgRef, FreshRef}
NoRef == "none"

EmptyItinerary == Itinerary("", Undefined, <<>>)
Unallocated == [alloc |-> FALSE, obj |-> EmptyItinerary]
NoBreakdown ==
    [threw |-> FALSE, accommodation |-> RZero, activities |-> RZero,
     transportation |-> RZero]

\* JSON.parse(JSON.stringify(value)) on the values of the model: strings and
\* finite numbers are kept, a property holding undefined is dropped and
\* reads as undefined afterwards
JSONValue(v) ==
    IF v.t = "str" THEN Str(v.s) ELSE IF v.t = "num" THEN Num(v.n) ELSE Undefined
JSONPart(p) == IF p.exists THEN Part(JSONValue(p.cost)) ELSE Missing
JSONActivities(acts) ==
    [j \in DOMAIN acts |-> Activity(acts[j].name, JSONValue(acts[j].cost))]
JSONClone(itin) ==
    [destination |-> itin.destination,
     totalCost |-> JSONValue(itin.totalCost),
     days |-> [i \in DOMAIN itin.days |->
        [accommodation |-> JSONPart(itin.days[i].accommodation),
         transportation |-> JSONPart(itin.days[i].transportation),
         activities |-> JSONActivities(itin.days[i].activities),
         alternativeActivities |->
            IF itin.days[i].alternativeActivities.exists
            THEN [exists |-> TRUE,
                  list |-> JSONActivities(itin.days[i].alternativeActivities.list)]
            ELSE NoAlternatives]]]

\* no copy is made: optimizedItinerary refers to the argument
CloneTargetAlias(ref) == ref

\* the object the local optimizedItinerary refers to after line 21: a new
\* object, not the argument
CloneTarget(ref) == FreshRef

\* the comparison of line 13 made strict
WithinBudgetStrict(currentCost, budget) == RLt(currentCost, budget)

\* line 13: currentCost <= totalBudget
WithinBudget(currentCost, budget) == RLeq(currentCost, budget)

\* the chain with >= in place of >: the earlier category wins a tie
DominantCategoryEarlierWins(b) ==
    IF RLeq(b.activities, b.accommodation) /\ RLeq(b.transportation, b.accommodation)
    THEN "accommodation"
    ELSE IF RLeq(b.transportation, b.activities) THEN "activities"
    ELSE "transportation"

\* the chain without the comparisons with transportation
DominantCategoryOfTwo(b) ==
    IF RLt(b.activities, b.accommodation) THEN "accommodation" ELSE "activities"

\* lines 27-37: the comparison chain that picks the category to reduce
DominantCategory(b) ==
    IF RLt(b.activities, b.accommodation) /\ RLt(b.transportation, b.accommodation)
    THEN "accommodation"
    ELSE IF RLt(b.transportation, b.activities) THEN "activities"
    ELSE "transportation"

Obj(ref) == heap[ref].obj

\* no call of optimizeBudget is in progress
OptimizerIdle ==
    /\ pc = "idle"
    /\ heap = [r \in Refs |-> Unallocated]
    /\ input = EmptyItinerary
    /\ totalBudget = RZero
    /\ savingsNeeded = RZero
    /\ optimizedItinerary = NoRef
    /\ budgetBreakdown = NoBreakdown
    /\ reduced = "none"
    /\ reductionPercentage = RZero
    /\ returned = NoRef
    /\ path = "none"

optimizerVars == <<pc, heap, input, totalBudget, savingsNeeded,
                   optimizedItinerary, budgetBreakdown, reduced,
                   reductionPercentage, returned, path>>

Init ==
    /\ OptimizerIdle
    /\ MiddlewareIdle
    /\ CacheIdle
    /\ GeneratorIdle
    /\ PostIdle
    /\ StorageIdle

\* a caller invokes optimizeBudget(itinerary, totalBudget)
Call ==
    /\ pc = "idle"
    /\ \E days \in SeqsUpTo(DayCatalogue, MaxDays) :
       \E total \in StatedTotals(days) :
       \E budget \in Budgets :
          /\ heap' = [heap EXCEPT ![ArgRef] =
                        [alloc |-> TRUE, obj |-> Itinerary(Destination, total, days)]]
          /\ input' = Itinerary(Destination, total, days)
          /\ totalBudget' = budget
    /\ pc' = "check"
    /\ UNCHANGED serviceVars
    /\ UNCHANGED <<savingsNeeded, optimizedItinerary, budgetBreakdown, reduced,
                   reductionPercentage, returned, path>>

\* line 10 raises: totalCost is a truthy non-string
CheckThrows ==
    /\ pc = "check"
    /\ parseCurrency(Obj(ArgRef).totalCost).threw
    /\ pc' = "catch"
    /\ UNCHANGED serviceVars
    /\ UNCHANGED <<heap, input, totalBudget, savingsNeeded, optimizedItinerary,
                   budgetBreakdown, reduced, reductionPercentage, returned, path>>

\* lines 13-15: already within budget, the argument is returned
ReturnUnchanged ==
    /\ pc = "check"
    /\ ~parseCurrency(Obj(ArgRef).totalCost).threw
    /\ WithinBudget(Amount(Obj(ArgRef).totalCost), totalBudget)
    /\ returned' = ArgRef
    /\ path' = "noop"
    /\ pc' = "done"
    /\ UNCHANGED serviceVars
    /\ UNCHANGED <<heap, input, totalBudget, savingsNeeded, optimizedItinerary,
                   budgetBreakdown, reduced, reductionPercentage>>

\* line 18
ComputeSavings ==
    /\ pc = "check"
    /\ ~parseCurrency(Obj(ArgRef).totalCost).threw
    /\ ~WithinBudget(Amount(Obj(ArgRef).totalCost), totalBudget)
    /\ savingsNeeded' = RSub(Amount(Obj(ArgRef).totalCost), totalBudget)
    /\ pc' = "copy"
    /\ UNCHANGED serviceVars
    /\ UNCHANGED <<heap, input, totalBudget, optimizedItinerary, budgetBreakdown,
                   reduced, reductionPercentage, returned, path>>

\* line 21
DeepCopy ==
    /\ pc = "copy"
    /\ optimizedItinerary' = CloneTarget(ArgRef)
    /\ heap' = [heap EXCEPT ![CloneTarget(ArgRef)] =
                  [alloc |-> TRUE, obj |-> JSONClone(Obj(ArgRef))]]
    /\ pc' = "analyze"
    /\ UNCHANGED serviceVars
    /\ UNCHANGED <<input, totalBudget, savingsNeeded, budgetBreakdown, reduced,
                   reductionPercentage, returned, path>>

\* line 24
Analyze ==
    /\ pc = "analyze"
    /\ ~analyzeBudgetAllocation(Obj(optimizedItinerary)).threw
    /\ budgetBreakdown' = analyzeBudgetAllocation(Obj(optimizedItinerary))
    /\ pc' = "reduce"
    /\ UNCHANGED serviceVars
    /\ UNCHANGED <<heap, input, totalBudget, savingsNeeded, optimizedItinerary,
                   reduced, reductionPercentage, returned, path>>

\* line 24 raises: a day lacks accommodation or transportation, or a cost
\* is a truthy non-string
AnalyzeThrows ==
    /\ pc = "analyze"
    /\ analyzeBudgetAllocation(Obj(optimizedItinerary)).threw
    /\ pc' = "catch"
    /\ UNCHANGED serviceVars
    /\ UNCHANGED <<heap, input, totalBudget, savingsNeeded, optimizedItinerary,
                   budgetBreakdown, reduced, reductionPercentage, returned, path>>

\* lines 27-30
ReduceAccommodation ==
    /\ pc = "reduce"
    /\ DominantCategory(budgetBreakdown) = "accommodation"
    /\ reduced' = "accommodation"
    /\ reductionPercentage' =
          ReductionPercentage(savingsNeeded, budgetBreakdown.accommodation, AccommodationCap)
    /\ heap' = [heap EXCEPT ![optimizedItinerary].obj.days =
                  optimizeAccommodation(@, savingsNeeded, budgetBreakdown.accommodation)]
    /\ pc' = "recalc"
    /\ UNCHANGED serviceVars
    /\ UNCHANGED <<input, totalBudget, savingsNeeded, optimizedItinerary,
                   budgetBreakdown, returned, path>>

\* lines 31-33
ReduceActivities ==
    /\ pc = "reduce"
    /\ DominantCategory(budgetBreakdown) = "activities"
    /\ reduced' = "activities"
    /\ reductionPercentage' =
          ReductionPercentage(savingsNeeded, budgetBreakdown.activities, ActivitiesCap)
    /\ heap' = [heap EXCEPT ![optimizedItinerary].obj.days =
                  optimizeActivities(@, savingsNeeded, budgetBreakdown.activities)]
    /\ pc' = "recalc"
    /\ UNCHANGED serviceVars
    /\ UNCHANGED <<input, totalBudget, savingsNeeded, optimizedItinerary,
                   budgetBreakdown, returned, path>>

\* lines 34-37
ReduceTransportation ==
    /\ pc = "reduce"
    /\ DominantCategory(budgetBreakdown) = "transportation"
    /\ reduced' = "transportation"
    /\ reductionPercentage' =
          ReductionPercentage(savingsNeeded, budgetBreakdown.transportation, TransportationCap)
    /\ heap' = [heap EXCEPT ![optimizedItinerary].obj.days =
                  optimizeTransportation(@, savingsNeeded, budgetBreakdown.transportation)]
    /\ pc' = "recalc"
    /\ UNCHANGED serviceVars
    /\ UNCHANGED <<input, totalBudget, savingsNeeded, optimizedItinerary,
                   budgetBreakdown, returned, path>>

\* lines 40-41
RecalculateTotal ==
    /\ pc = "recalc"
    /\ heap' = [heap EXCEPT ![optimizedItinerary].obj.totalCost =
                  Str(formatCurrency(calculateTotalCost(Obj(optimizedItinerary).days)))]
    /\ pc' = "alternatives"
    /\ UNCHANGED serviceVars
    /\ UNCHANGED <<input, totalBudget, savingsNeeded, optimizedItinerary,
                   budgetBreakdown, reduced, reductionPercentage, returned, path>>

\* line 44
AddAlternatives ==
    /\ pc = "alternatives"
    /\ heap' = [heap EXCEPT ![optimizedItinerary].obj.days = addBudgetAlternatives(@)]
    /\ pc' = "return"
    /\ UNCHANGED serviceVars
    /\ UNCHANGED <<input, totalBudget, savingsNeeded, optimizedItinerary,
                   budgetBreakdown, reduced, reductionPercentage, returned, path>>

\* line 46
ReturnOptimized ==
    /\ pc = "return"
    /\ returned' = optimizedItinerary
    /\ path' = "optimized"
    /\ pc' = "done"
    /\ UNCHANGED serviceVars
    /\ UNCHANGED <<heap, input, totalBudget, savingsNeeded, optimizedItinerary,
                   budgetBreakdown, reduced, reductionPercentage>>

\* the catch block rethrows instead of returning
CatchRethrows ==
    /\ pc = "catch"
    /\ returned' = NoRef
    /\ path' = "rejected"
    /\ pc' = "done"
    /\ UNCHANGED serviceVars
    /\ UNCHANGED <<heap, input, totalBudget, savingsNeeded, optimizedItinerary,
                   budgetBreakdown, reduced, reductionPercentage>>

\* lines 47-50: the original itinerary is returned
Catch ==
    /\ pc = "catch"
    /\ returned' = ArgRef
    /\ path' = "failed"
    /\ pc' = "done"
    /\ UNCHANGED serviceVars
    /\ UNCHANGED <<heap, input, totalBudget, savingsNeeded, optimizedItinerary,
                   budgetBreakdown, reduced, reductionPercentage>>

Next ==
    \/ Call
    \/ CheckThrows
    \/ ReturnUnchanged
    \/ ComputeSavings
    \/ DeepCopy
    \/ Analyze
    \/ AnalyzeThrows
    \/ ReduceAccommodation
    \/ ReduceActivities
    \/ ReduceTransportation
    \/ RecalculateTotal
    \/ AddAlternatives
    \/ ReturnOptimized
    \/ Catch

Spec == Init /\ [][Next]_vars

(***************************************************************************)
(* Properties.                                                             *)
(***************************************************************************)
Returned == Obj(returned)
Done == pc = "done"
Optimized == pc = "done" /\ path = "optimized"

\* the sum over all days of accommodation + transportation + activities,
\* computed from the cost strings of an itinerary
DayCostSum(days) ==
    SumRat([i \in DOMAIN days |->
        RAdd(Amount(days[i].accommodation.cost),
             RAdd(Amount(days[i].transportation.cost),
                  SumRat([j \in DOMAIN days[i].activities |->
                             Amount(days[i].activities[j].cost)])))])

Readable(itin) ==
    /\ ~parseCurrency(itin.totalCost).threw
    /\ \A i \in DOMAIN itin.days : ~DayThrows(itin.days[i])

Consistent(itin) ==
    Readable(itin) /\ Amount(itin.totalCost) = DayCostSum(itin.days)

\* C1: when the stated total does not exceed the budget, the returned
\* itinerary is the input: same totalCost, same day costs, and no day has
\* gained an alternativeActivities list.
C1_NoOpWithinBudget ==
    (/\ Done
     /\ ~parseCurrency(input.totalCost).threw
     /\ RLeq(Amount(input.totalCost), totalBudget))
    => (/\ returned = ArgRef
        /\ Returned = input
        /\ \A i \in DOMAIN Returned.days : ~Returned.days[i].alternativeActivities.exists)

\* a call whose stated total equals the budget exactly, on a non-empty itinerary
C1_Witness ==
    /\ Done
    /\ path = "noop"
    /\ input.days # <<>>
    /\ input.totalCost.t = "str"
    /\ Amount(input.totalCost) = totalBudget
    /\ totalBudget # RZero

\* C2 (as claimed): for every itinerary returned, on every path, the stated
\* total equals the sum of the day costs.
C2_TotalEqualsDaySumOnEveryPath ==
    (Done /\ Readable(Returned))
    => Amount(Returned.totalCost) = DayCostSum(Returned.days)

\* C2 (amended): on the over-budget path the returned totalCost is the sum
\* of the returned day costs, rounded to the cent; on the within-budget and
\* failure paths the argument itself is returned with the value it had, so
\* the equality holds there exactly when the input had it.
C2_TotalEqualsDaySumWhenOptimized ==
    /\ Optimized =>
          /\ Returned.totalCost.t = "str"
          /\ Readable(Returned)
          /\ Amount(Returned.totalCost) = Rat(RoundToCents(DayCostSum(Returned.days)), 100)
    /\ (Done /\ path \in {"noop", "failed"}) =>
          /\ returned = ArgRef
          /\ Returned = input

\* an over-budget call whose stated total differed from the day sum and
\* whose returned total was recomputed from reduced costs
C2_Witness ==
    /\ Optimized
    /\ ~Consistent(input)
    /\ DayCostSum(Returned.days) # DayCostSum(input.days)
    /\ Returned.totalCost # input.totalCost
    /\ Len(Returned.days) > 1

\* C3 (as claimed): on the over-budget path no cost item of the reduced
\* category loses more than the category's cap: new >= old * (1 - cap).
C3_ItemReductionWithinCap ==
    Optimized =>
        \A i \in DOMAIN Returned.days :
            /\ reduced = "accommodation" =>
                  RLeq(RMul(Amount(input.days[i].accommodation.cost), <<1, 2>>),
                       Amount(Returned.days[i].accommodation.cost))
            /\ reduced = "transportation" =>
                  RLeq(RMul(Amount(input.days[i].transportation.cost), <<11, 20>>),
                       Amount(Returned.days[i].transportation.cost))
            /\ reduced = "activities" =>
                  \A j \in DOMAIN Returned.days[i].activities :
                      RLeq(RMul(Amount(input.days[i].activities[j].cost), <<3, 5>>),
                           Amount(Returned.days[i].activities[j].cost))

CapOf(category) ==
    IF category = "accommodation" THEN <<1, 2>>
    ELSE IF category = "activities" THEN <<2, 5>>
    ELSE <<9, 20>>

HalfCent == <<1, 200>>

\* C3 (amended): the reduction percentage computed for the reduced category
\* never exceeds its cap (0.5, 0.4, 0.45).  An accommodation or
\* transportation cost becomes old * (1 - percentage) rounded to the cent,
\* so it is never more than half a cent under old * (1 - cap).  Activities
\* are not bounded by 0.4 per item: the most expensive of a day is reduced
\* by 1.2 times the percentage.
C3_PercentageWithinCap ==
    Optimized =>
        /\ RLeq(reductionPercentage, CapOf(reduced))
        /\ RLeq(RZero, reductionPercentage)
        /\ \A i \in DOMAIN Returned.days :
            /\ reduced = "accommodation" =>
                  /\ Returned.days[i].accommodation.cost =
                        Str(formatCurrency(RMul(Amount(input.days[i].accommodation.cost),
                                                RSub(<<1, 1>>, reductionPercentage))))
                  /\ RLt(RSub(RMul(Amount(input.days[i].accommodation.cost), <<1, 2>>), HalfCent),
                         Amount(Returned.days[i].accommodation.cost))
            /\ reduced = "transportation" =>
                  /\ Returned.days[i].transportation.cost =
                        Str(formatCurrency(RMul(Amount(input.days[i].transportation.cost),
                                                RSub(<<1, 1>>, reductionPercentage))))
                  /\ RLt(RSub(RMul(Amount(input.days[i].transportation.cost), <<11, 20>>), HalfCent),
                         Amount(Returned.days[i].transportation.cost))

\* the savings needed exceed the whole reduced category, the percentage is
\* the cap, and rounding to the cent took a transportation cost below
\* old * (1 - cap)
C3_Witness ==
    /\ Optimized
    /\ reduced = "transportation"
    /\ RLt(budgetBreakdown.transportation, savingsNeeded)
    /\ reductionPercentage = <<9, 20>>
    /\ \E i \in DOMAIN Returned.days :
          RLt(Amount(Returned.days[i].transportation.cost),
              RMul(Amount(input.days[i].transportation.cost), <<11, 20>>))

\* the largest of the three totals, ties going to the first of
\* accommodation, activities, transportation
LargestEarlierFirst(b) ==
    IF RLeq(b.activities, b.accommodation) /\ RLeq(b.transportation, b.accommodation)
    THEN "accommodation"
    ELSE IF RLeq(b.transportation, b.activities) THEN "activities"
    ELSE "transportation"

\* the largest of the three totals, ties going to the first of
\* transportation, activities, accommodation
LargestLaterFirst(b) ==
    IF RLeq(b.activities, b.transportation) /\ RLeq(b.accommodation, b.transportation)
    THEN "transportation"
    ELSE IF RLeq(b.accommodation, b.activities) THEN "activities"
    ELSE "accommodation"

InputBreakdown == analyzeBudgetAllocation(input)

\* C4 (as claimed): the reduced category has the largest total and ties go
\* to accommodation, then activities, then transportation.
C4_TiesToAccommodationFirst ==
    Optimized => reduced = LargestEarlierFirst(InputBreakdown)

\* C4 (amended): the reduced category has the largest total and ties go to
\* transportation, then activities, then accommodation (accommodation =
\* activities > transportation reduces activities; activities =
\* transportation > accommodation reduces transportation).
C4_TiesToTransportationFirst ==
    Optimized =>
        /\ reduced = LargestLaterFirst(InputBreakdown)
        /\ \A i \in DOMAIN Returned.days :
              /\ reduced # "accommodation" =>
                    Returned.days[i].accommodation = input.days[i].accommodation
              /\ reduced # "transportation" =>
                    Returned.days[i].transportation = input.days[i].transportation
              /\ reduced # "activities" =>
                    Returned.days[i].activities = input.days[i].activities

\* accommodation = activities > transportation, and activities were reduced
C4_Witness ==
    /\ Optimized
    /\ InputBreakdown.accommodation = InputBreakdown.activities
    /\ RLt(InputBreakdown.transportation, InputBreakdown.activities)
    /\ reduced = "activities"
    /\ \E i \in DOMAIN Returned.days :
          Returned.days[i].activities # input.days[i].activities

InputCostOf(i, j) == Amount(input.days[i].activities[j].cost)

\* C5 (as claimed): on the over-budget path every day has an
\* alternativeActivities list parallel to its activities, entry j named
\* "Budget " + name of activity j and costing 0.6 times the cost that
\* activity had in the input, whichever category was reduced.
C5_AlternativesFromInputCosts ==
    Optimized =>
        \A i \in DOMAIN Returned.days :
            LET day == Returned.days[i] IN
            /\ day.alternativeActivities.exists
            /\ Len(day.alternativeActivities.list) = Len(day.activities)
            /\ \A j \in DOMAIN day.activities :
                  /\ day.alternativeActivities.list[j].name =
                        <<"B", "u", "d", "g", "e", "t", " ">> \o input.days[i].activities[j].name
                  /\ Amount(day.alternativeActivities.list[j].cost) =
                        Rat(RoundToCents(RMul(InputCostOf(i, j), <<3, 5>>)), 100)

\* C5 (amended): on the over-budget path every day has an
\* alternativeActivities list parallel to its activities, entry j named
\* "Budget " + name of activity j and costing 0.6 times the cost activity j
\* has in the returned itinerary, rounded to the cent; that is 0.6 times
\* the input cost when accommodation or transportation was reduced, and
\* 0.6 times the already reduced cost when activities were reduced.
C5_AlternativesFromReturnedCosts ==
    Optimized =>
        \A i \in DOMAIN Returned.days :
            LET day == Returned.days[i] IN
            /\ day.alternativeActivities.exists
            /\ Len(day.alternativeActivities.list) = Len(day.activities)
            /\ Len(day.activities) = Len(input.days[i].activities)
            /\ \A j \in DOMAIN day.activities :
                  /\ day.activities[j].name = input.days[i].activities[j].name
                  /\ day.alternativeActivities.list[j].name =
                        <<"B", "u", "d", "g", "e", "t", " ">> \o input.days[i].activities[j].name
                  /\ day.alternativeActivities.list[j].cost.t = "str"
                  /\ Amount(day.alternativeActivities.list[j].cost) =
                        Rat(RoundToCents(RMul(Amount(day.activities[j].cost), <<3, 5>>)), 100)
                  /\ reduced # "activities" =>
                        Amount(day.alternativeActivities.list[j].cost) =
                            Rat(RoundToCents(RMul(InputCostOf(i, j), <<3, 5>>)), 100)

\* the scenario's day: accommodation reduced, activities of $25.00 and
\* $15.00 with alternatives "Budget A" at $15.00 and "Budget B" at $9.00
C5_Witness ==
    /\ Optimized
    /\ reduced = "accommodation"
    /\ \E i \in DOMAIN Returned.days :
          /\ Len(Returned.days[i].activities) = 2
          /\ InputCostOf(i, 1) = RInt(25)
          /\ InputCostOf(i, 2) = RInt(15)
          /\ Returned.days[i].alternativeActivities.list[1] =
                Activity(<<"B", "u", "d", "g", "e", "t", " ", "A">>,
                         Str(<<"$", "1", "5", ".", "0", "0">>))
          /\ Returned.days[i].alternativeActivities.list[2] =
                Activity(<<"B", "u", "d", "g", "e", "t", " ", "B">>,
                         Str(<<"$", "9", ".", "0", "0">>))

\* C6: optimizeBudget always resolves with an itinerary, and when a step
\* fails the value it resolves with is the argument, every field as it was.
C6_FailureReturnsOriginal ==
    /\ path \in {"none", "noop", "optimized", "failed"}
    /\ Done =>
          /\ returned \in Refs
          /\ heap[returned].alloc
          /\ path = "failed" => (returned = ArgRef /\ Returned = input)
    /\ pc = "catch" => Obj(ArgRef) = input

\* a failure after the copy was made: a day has no accommodation, or a cost
\* is a number
C6_Witness ==
    /\ Done
    /\ path = "failed"
    /\ heap[FreshRef].alloc
    /\ \E i \in DOMAIN input.days :
          \/ ~input.days[i].accommodation.exists
          \/ input.days[i].transportation.cost.t = "num"

\* C7: the itinerary object passed to optimizeBudget is never modified, at
\* any point of any path.
C7_ArgumentNeverModified ==
    heap[ArgRef].alloc => Obj(ArgRef) = input

\* a reduction was carried out and returned, and the argument still has its
\* costs and no alternativeActivities
C7_Witness ==
    /\ Optimized
    /\ returned # ArgRef
    /\ Returned.days # input.days
    /\ Returned.totalCost # input.totalCost
    /\ Obj(ArgRef) = input

ReducedTotal ==
    IF reduced = "accommodation" THEN budgetBreakdown.accommodation
    ELSE IF reduced = "activities" THEN budgetBreakdown.activities
    ELSE budgetBreakdown.transportation

\* savingsNeeded / total of the reduced category exceeds its cap
Clamped == RLt(RMul(CapOf(reduced), ReducedTotal), savingsNeeded)

\* half a cent for each day of the itinerary
RoundingSlack == Rat(Len(input.days), 200)

\* C8 (as claimed): whenever the percentage is clamped by the cap, the
\* returned total is still above the budget.
C8_ClampedStaysOverBudget ==
    (Optimized /\ Clamped) => RLt(totalBudget, Amount(Returned.totalCost))

\* C8 (amended): when the percentage is clamped by the cap, accommodation
\* or transportation is the reduced category and the input's stated total
\* equals the sum of its day costs, the returned total is above the budget
\* less half a cent of rounding per day, and it is the input total less
\* what the one category lost (no second pass).  With activities reduced,
\* or a stated total above the day sum, the returned total can be at or
\* below the budget.
C8_ClampedStaysOverBudgetWhenConsistent ==
    (/\ Optimized
     /\ Clamped
     /\ reduced \in {"accommodation", "transportation"}
     /\ Consistent(input))
    => /\ RLt(RSub(totalBudget, RoundingSlack), Amount(Returned.totalCost))
       /\ Amount(Returned.totalCost) =
             RSub(Amount(input.totalCost),
                  IF reduced = "accommodation"
                  THEN RSub(budgetBreakdown.accommodation,
                            analyzeBudgetAllocation(Returned).accommodation)
                  ELSE RSub(budgetBreakdown.transportation,
                            analyzeBudgetAllocation(Returned).transportation))

\* a clamped reduction of transportation on a consistent input whose
\* returned total is not above the budget (rounding to the cent)
C8_Witness ==
    /\ Optimized
    /\ Clamped
    /\ reduced = "transportation"
    /\ Consistent(input)
    /\ input.days # <<>>
    /\ RLeq(Amount(Returned.totalCost), totalBudget)

\* a clamped reduction of accommodation on a consistent input: the result
\* stays strictly above the budget
C8_WitnessAccommodation ==
    /\ Optimized
    /\ Clamped
    /\ reduced = "accommodation"
    /\ Consistent(input)
    /\ RLt(totalBudget, Amount(Returned.totalCost))

\* C9: accommodation or transportation reduced, stated total equal to the
\* day sum, percentage not clamped: the returned total differs from the
\* budget by at most half a cent per day.
C9_UnclampedMeetsBudget ==
    (/\ Optimized
     /\ ~Clamped
     /\ reduced \in {"accommodation", "transportation"}
     /\ Consistent(input))
    => /\ RLeq(RSub(totalBudget, RoundingSlack), Amount(Returned.totalCost))
       /\ RLeq(Amount(Returned.totalCost), RAdd(totalBudget, RoundingSlack))

\* the scenario: 2 x (120 + 10 + 25 + 15) = 340 with budget 300 gives
\* accommodation $100.00 per day and total $300.00
C9_Witness ==
    /\ Optimized
    /\ reduced = "accommodation"
    /\ ~Clamped
    /\ Consistent(input)
    /\ Len(input.days) = 2
    /\ Amount(input.totalCost) = RInt(340)
    /\ totalBudget = RInt(300)
    /\ \A i \in DOMAIN Returned.days :
          /\ Amount(input.days[i].accommodation.cost) = RInt(120)
          /\ Returned.days[i].accommodation.cost =
                Str(<<"$", "1", "0", "0", ".", "0", "0">>)
    /\ Returned.totalCost = Str(<<"$", "3", "0", "0", ".", "0", "0">>)

\* an unclamped reduction of transportation in which the reduced costs were
\* rounded to the cent
C9_WitnessRounded ==
    /\ Optimized
    /\ reduced = "transportation"
    /\ ~Clamped
    /\ Consistent(input)
    /\ \E i \in DOMAIN Returned.days :
          Amount(Returned.days[i].transportation.cost) #
              RMul(Amount(input.days[i].transportation.cost),
                   RSub(<<1, 1>>, reductionPercentage))

\* C10: optimizeBudget applied to an itinerary with zero days returns an
\* itinerary equal to the input, totalCost included, even when the stated
\* total exceeds the budget.
C10_ZeroDaysNoOp ==
    (Done /\ input.days = <<>>) => Returned = input

\* a string from which no number can be read once the symbols are removed
Unparseable(v) ==
    /\ v.t = "str"
    /\ \/ v.s = <<>>
       \/ parseFloat(Trim(FilterOut(v.s, {"$", ",", "€", "£", "¥"}))).nan

\* C11: a cost that is undefined, empty or unparseable counts as 0 without
\* raising, so an itinerary whose totalCost is empty or unparseable is
\* returned unchanged by the within-budget path for every budget >= 0,
\* whatever its day costs sum to.
C11_UnparseableTotalIsZero ==
    /\ parseCurrency(Undefined) = [threw |-> FALSE, val |-> RZero]
    /\ (pc # "idle" /\ Unparseable(input.totalCost)) =>
          parseCurrency(input.totalCost) = [threw |-> FALSE, val |-> RZero]
    /\ (Done /\ Unparseable(input.totalCost) /\ RLeq(RZero, totalBudget)) =>
          /\ path = "noop"
          /\ returned = ArgRef
          /\ Returned = input

\* a free-text total over days that cost more than the budget
C11_Witness ==
    /\ Done
    /\ path = "noop"
    /\ input.totalCost = Str(<<"T", "B", "D">>)
    /\ \A i \in DOMAIN input.days : ~DayThrows(input.days[i])
    /\ RLt(totalBudget, DayCostSum(input.days))
    /\ RLt(RZero, totalBudget)

\* C22: when activities are the reduced category, every activity of every
\* day is reduced exactly once from its input cost: the most expensive of
\* the day by the factor 1 - 1.2 r, every other by 1 - r, also in a day in
\* which two activities bear the same name.
C22_EachActivityReducedOnce ==
    (Optimized /\ reduced = "activities") =>
        \A i \in DOMAIN input.days :
            LET acts == input.days[i].activities
                top == Head(SortedOrder(acts, Len(acts)))
            IN  \A j \in DOMAIN acts :
                    Returned.days[i].activities[j].cost =
                        Str(formatCurrency(RMul(InputCostOf(i, j),
                            RSub(<<1, 1>>,
                                 IF j = top
                                 THEN RMul(reductionPercentage, TopActivityBoost)
                                 ELSE reductionPercentage))))

\* C23: on the over-budget path the returned itinerary differs from the
\* input only in the costs of the reduced category, in totalCost and in the
\* added alternativeActivities: the costs of the two other categories and
\* the number, order and names of each day's activities are those of the
\* input.
C23_OnlyReducedCategoryChanges ==
    Optimized =>
        /\ Returned.destination = input.destination
        /\ Len(Returned.days) = Len(input.days)
        /\ \A i \in DOMAIN input.days :
            LET before == input.days[i]
                after == Returned.days[i]
            IN  /\ reduced # "accommodation" => after.accommodation = before.accommodation
                /\ reduced # "transportation" =>
                       after.transportation = before.transportation
                /\ Len(after.activities) = Len(before.activities)
                /\ \A j \in DOMAIN before.activities :
                       /\ after.activities[j].name = before.activities[j].name
                       /\ reduced # "activities" =>
                              after.activities[j].cost = before.activities[j].cost
                /\ after.alternativeActivities.exists
                /\ ~before.alternativeActivities.exists

\* accommodation was reduced in an itinerary with a day of two activities,
\* which gained alternatives
C23_Witness ==
    /\ Optimized
    /\ reduced = "accommodation"
    /\ Returned.totalCost # input.totalCost
    /\ \E i \in DOMAIN input.days :
          /\ Len(input.days[i].activities) = 2
          /\ Returned.days[i].accommodation # input.days[i].accommodation
          /\ Len(Returned.days[i].alternativeActivities.list) = 2

\* C24: for every input whose stated total exceeds the budget, the
\* totalCost of the returned itinerary is at most the input's stated
\* totalCost, also when the stated total differs from the sum of the day
\* costs.
C24_TotalNeverRaised ==
    (/\ Done
     /\ ~parseCurrency(input.totalCost).threw
     /\ RLt(totalBudget, Amount(input.totalCost)))
    => RLeq(Amount(Returned.totalCost), Amount(input.totalCost))

\* C25: whatever the three category totals are, ties and all-zero totals
\* included, the category reduced has a total greater than or equal to each
\* of the two others, and exactly one category is reduced: the costs of the
\* two others are those of the input.
C25_ReducedCategoryIsLargest ==
    Optimized =>
        /\ reduced \in {"accommodation", "activities", "transportation"}
        /\ budgetBreakdown = InputBreakdown
        /\ RLeq(budgetBreakdown.accommodation, ReducedTotal)
        /\ RLeq(budgetBreakdown.activities, ReducedTotal)
        /\ RLeq(budgetBreakdown.transportation, ReducedTotal)
        /\ \A i \in DOMAIN input.days :
            /\ reduced # "accommodation" =>
                   Returned.days[i].accommodation = input.days[i].accommodation
            /\ reduced # "activities" =>
                   \A j \in DOMAIN input.days[i].activities :
                       Returned.days[i].activities[j].cost =
                           input.days[i].activities[j].cost
            /\ reduced # "transportation" =>
                   Returned.days[i].transportation = input.days[i].transportation

\* an over-budget itinerary with days whose three category totals are all 0
C25_Witness ==
    /\ Optimized
    /\ input.days # <<>>
    /\ budgetBreakdown.accommodation = RZero
    /\ budgetBreakdown.activities = RZero
    /\ budgetBreakdown.transportation = RZero
    /\ reduced = "transportation"

\* a tie between the two largest totals with the third one smaller
C25_WitnessTie ==
    /\ Optimized
    /\ budgetBreakdown.accommodation = budgetBreakdown.activities
    /\ RLt(budgetBreakdown.transportation, budgetBreakdown.activities)
    /\ reduced = "activities"

(***************************************************************************)
(* middleware.ts: the per-client request rate limiter.  Every call of      *)
(* middleware is one action; the clock moves between calls.                *)
(***************************************************************************)
RATE_LIMIT_WINDOW == 60 * 1000
RATE_LIMIT_MAX_REQUESTS == 60
RATE_LIMIT_OPENAI_REQUESTS == 10

\* requests a client may still send after its limit is reached, per run
MaxRejected == 1
\* requests sent in one run by the clients that are not watched; they
\* accompany a watched client of the AI routes, while a watched client of
\* the standard routes, with its limit of 60, is followed alone
MaxBackground == 1

\* String.prototype.startsWith and includes, on sequences of characters
StartsWith(s, prefix) ==
    /\ Len(prefix) <= Len(s)
    /\ SubSeq(s, 1, Len(prefix)) = prefix

Includes(s, part) ==
    \E i \in 1..(Len(s) - Len(part) + 1) :
        SubSeq(s, i, i + Len(part) - 1) = part

ApiPrefix == <<"/", "a", "p", "i">>
ChatRoute == <<"/", "a", "p", "i", "/", "c", "h", "a", "t">>
GeneratePlanRoute ==
    <<"/", "a", "p", "i", "/", "g", "e", "n", "e", "r", "a", "t", "e", "-",
      "p", "l", "a", "n">>
ItineraryRoute ==
    <<"/", "a", "p", "i", "/", "i", "t", "i", "n", "e", "r", "a", "r", "y">>
Pathnames ==
    {ChatRoute, GeneratePlanRoute, ItineraryRoute,
     <<"/", "d", "a", "s", "h", "b", "o", "a", "r", "d">>}

\* request.ip: an address, or undefined when the platform gives none
NoIp == "undefined"
RequestIps == {"203.0.113.7", NoIp}

isAiApiRoute(pathname) ==
    Includes(pathname, ChatRoute) \/ Includes(pathname, GeneratePlanRoute)

rateLimitOf(pathname) ==
    IF isAiApiRoute(pathname) THEN RATE_LIMIT_OPENAI_REQUESTS
    ELSE RATE_LIMIT_MAX_REQUESTS

\* `${ip}-${isAiApiRoute ? 'ai' : 'standard'}` with ip = request.ip || 'anonymous'
rateLimitKey(ip, pathname) ==
    <<IF ip = NoIp THEN "anonymous" ELSE ip,
      IF isAiApiRoute(pathname) THEN "ai" ELSE "standard">>

\* a window twice as long
WindowElapsedAfterTwoWindows(entry, t) ==
    t - entry.timestamp > 2 * RATE_LIMIT_WINDOW

\* the window of an entry has elapsed
WindowElapsed(entry, t) == t - entry.timestamp > RATE_LIMIT_WINDOW

\* whether the middleware's rate-limit code runs for the request
Limited(pathname) == env # "development" /\ StartsWith(pathname, ApiPrefix)

\* the store after middleware's lines 53-58
Counted(key) ==
    IF key \notin DOMAIN rateLimitStore \/ WindowElapsed(rateLimitStore[key], now)
    THEN [k \in (DOMAIN rateLimitStore) \cup {key} |->
            IF k = key THEN [count |-> 1, timestamp |-> now]
            ELSE rateLimitStore[k]]
    ELSE [rateLimitStore EXCEPT ![key].count = @ + 1]

\* the instants at which the model lets requests arrive
Instants ==
    {0, RATE_LIMIT_WINDOW, RATE_LIMIT_WINDOW + 1, 2 * RATE_LIMIT_WINDOW + 1}

\* the log of admissions with one more at time t
Logged(log, t) ==
    [i \in (DOMAIN log) \cup {t} |-> IF i \in DOMAIN log /\ i # t THEN log[i]
                                      ELSE IF i \in DOMAIN log THEN log[i] + 1
                                      ELSE 1]

RECURSIVE SumOver(_, _)
SumOver(f, S) ==
    IF S = {} THEN 0
    ELSE LET x == CHOOSE y \in S : TRUE IN f[x] + SumOver(f, S \ {x})

AdmittedInWindow == SumOver(admitted, DOMAIN admitted)

MiddlewareInit ==
    /\ OptimizerIdle
    /\ CacheIdle
    /\ GeneratorIdle
    /\ PostIdle
    /\ StorageIdle
    /\ env \in {"production", "development"}
    /\ now = 0
    /\ rateLimitStore = <<>>
    /\ response = NoResponse
    /\ watched \in {rateLimitKey(ip, p) :
                      ip \in RequestIps, p \in {ChatRoute, ItineraryRoute}}
    /\ admitted = <<>>
    /\ background = 0

\* one call of middleware(request)
Middleware ==
    \E ip \in RequestIps, pathname \in Pathnames :
      LET key == rateLimitKey(ip, pathname)
          rateLimit == rateLimitOf(pathname)
          store == IF Limited(pathname) THEN Counted(key) ELSE rateLimitStore
          exceeded == Limited(pathname) /\ store[key].count > rateLimit
          isWatched == StartsWith(pathname, ApiPrefix) /\ key = watched
      IN  /\ IF isWatched
             THEN IF Limited(pathname)
                  THEN store[key].count < rateLimit + MaxRejected + 1
                  ELSE AdmittedInWindow < rateLimit + MaxRejected
             ELSE background < MaxBackground /\ watched[2] = "ai"
          /\ background' = IF isWatched THEN background ELSE background + 1
          /\ rateLimitStore' = store
          /\ response' =
                IF ~isWatched THEN response
                ELSE IF ~Limited(pathname)
                THEN [NoResponse EXCEPT !.status = 200,
                                        !.previous = response.status]
                ELSE IF exceeded
                THEN [status |-> 429, remaining |-> 0,
                      retryAfter |->
                          (RATE_LIMIT_WINDOW - (now - store[key].timestamp) + 999)
                              \div 1000,
                      previous |-> response.status]
                ELSE [status |-> 200, remaining |-> rateLimit - store[key].count,
                      retryAfter |-> 0, previous |-> response.status]
          /\ admitted' = IF isWatched /\ ~exceeded THEN Logged(admitted, now)
                         ELSE admitted
          /\ UNCHANGED <<env, now, watched>>
          /\ UNCHANGED <<optimizerVars, cacheVars,
                         generatorVars, post, storageVars>>

\* setInterval(cleanupRateLimitStore, RATE_LIMIT_WINDOW)
cleanupRateLimitStore ==
    /\ rateLimitStore' =
          [k \in {j \in DOMAIN rateLimitStore :
                    ~WindowElapsed(rateLimitStore[j], now)} |-> rateLimitStore[k]]
    /\ rateLimitStore' # rateLimitStore
    /\ UNCHANGED <<env, now, response, watched, admitted, background>>
    /\ UNCHANGED <<optimizerVars, cacheVars, generatorVars, post, storageVars>>

\* time passes between two calls
Advance ==
    /\ \E t \in Instants :
          /\ t > now
          /\ now' = t
          /\ admitted' = [i \in {j \in DOMAIN admitted :
                                     t - j < RATE_LIMIT_WINDOW} |-> admitted[i]]
    /\ UNCHANGED <<env, rateLimitStore, response, watched, background>>
    /\ UNCHANGED <<optimizerVars, cacheVars, generatorVars, post, storageVars>>

MiddlewareNext ==
    \/ Middleware
    \/ cleanupRateLimitStore
    \/ Advance

MiddlewareSpec == MiddlewareInit /\ [][MiddlewareNext]_vars

\* C12: in production mode, for any one client IP and any 60-second
\* interval, the middleware admits at most 60 requests to standard /api
\* routes and at most 10 requests to the AI routes.
C12_AdmittedPerMinuteWithinLimit ==
    env = "production" =>
        AdmittedInWindow <= (IF watched[2] = "ai" THEN RATE_LIMIT_OPENAI_REQUESTS
                             ELSE RATE_LIMIT_MAX_REQUESTS)

\* C26: when the counter window of a client and route class started at time
\* t, the first request of that client and class later than t + 60 s
\* restarts the count at 1 with the window starting at that request, is
\* admitted whatever number of requests was rejected in between, and leaves
\* the counters of every other IP and of the other route class as they were.
C26_RecoveryAfterWindow ==
    [][\A key \in (DOMAIN rateLimitStore) \cap (DOMAIN rateLimitStore') :
          (/\ rateLimitStore'[key] # rateLimitStore[key]
           /\ now - rateLimitStore[key].timestamp > RATE_LIMIT_WINDOW)
          => /\ rateLimitStore'[key] = [count |-> 1, timestamp |-> now]
             /\ key = watched => response'.status = 200
             /\ \A other \in (DOMAIN rateLimitStore) \ {key} :
                   /\ other \in DOMAIN rateLimitStore'
                   /\ rateLimitStore'[other] = rateLimitStore[other]]_vars

\* the watched client of the AI routes, rejected in a window that started
\* at 0, has been admitted again later with a new count of 1, while the
\* store holds the counter of another client
C26_Witness ==
    /\ env = "production"
    /\ watched[2] = "ai"
    /\ watched \in DOMAIN rateLimitStore
    /\ rateLimitStore[watched] = [count |-> 1, timestamp |-> now]
    /\ now > RATE_LIMIT_WINDOW
    /\ response.status = 200
    /\ response.previous = 429
    /\ \E other \in DOMAIN rateLimitStore :
          other # watched /\ rateLimitStore[other].timestamp < now

(***************************************************************************)
(* api-cache.ts: the in-memory response cache.  Every exported function    *)
(* is one action; the clock moves between calls.                           *)
(***************************************************************************)
DEFAULT_CACHE_DURATION == 60 * 60 * 1000

CacheKeys == {"/api/flights-{}", "/api/hotels-{}"}
CacheData == {"A", "B"}
CacheDurations == {0, 1000, DEFAULT_CACHE_DURATION}
CacheInstants ==
    {0, 1000, 1001, DEFAULT_CACHE_DURATION, DEFAULT_CACHE_DURATION + 1}

\* a record without the field k
Without(f, k) == [j \in (DOMAIN f) \ {k} |-> f[j]]

\* a record with the field k set to v
With(f, k, v) == [j \in (DOMAIN f) \cup {k} |-> IF j = k THEN v ELSE f[j]]

\* an entry is expired once its expiry time has been reached
ExpiredInclusive(entry, t) == t >= entry.expiresAt

\* the test of getCachedResponse and clearExpiredCache on an entry
Expired(entry, t) == t > entry.expiresAt

CacheInit ==
    /\ OptimizerIdle
    /\ MiddlewareIdle
    /\ CacheIdle
    /\ GeneratorIdle
    /\ PostIdle
    /\ StorageIdle

getCachedResponse ==
    \E cacheKey \in CacheKeys :
      /\ IF cacheKey \notin DOMAIN cache
         THEN /\ called' = [op |-> "getCachedResponse", key |-> cacheKey,
                            value |-> "null", at |-> now]
              /\ cache' = cache
         ELSE IF Expired(cache[cacheKey], now)
         THEN /\ called' = [op |-> "getCachedResponse", key |-> cacheKey,
                            value |-> "null", at |-> now]
              /\ cache' = Without(cache, cacheKey)
         ELSE /\ called' = [op |-> "getCachedResponse", key |-> cacheKey,
                            value |-> cache[cacheKey].data, at |-> now]
              /\ cache' = cache
      /\ UNCHANGED written
      /\ UNCHANGED <<optimizerVars, middlewareVars,
                     generatorVars, post, storageVars>>

cacheResponse ==
    \E cacheKey \in CacheKeys, data \in CacheData, duration \in CacheDurations :
      /\ cache' = With(cache, cacheKey,
                       [data |-> data, timestamp |-> now,
                        expiresAt |-> now + duration])
      /\ called' = [op |-> "cacheResponse", key |-> cacheKey,
                    value |-> "undefined", at |-> now]
      /\ written' = With(written, cacheKey,
                         [data |-> data, at |-> now, duration |-> duration])
      /\ UNCHANGED <<optimizerVars, middlewareVars,
                     generatorVars, post, storageVars>>

clearExpiredCache ==
    /\ cache' = [k \in {j \in DOMAIN cache : ~Expired(cache[j], now)} |-> cache[k]]
    /\ called' = [op |-> "clearExpiredCache", key |-> "", value |-> "undefined",
                  at |-> now]
    /\ UNCHANGED written
    /\ UNCHANGED <<optimizerVars, middlewareVars,
                   generatorVars, post, storageVars>>

\* time passes between two calls
CacheAdvance ==
    /\ \E t \in CacheInstants : t > now /\ now' = t
    /\ UNCHANGED <<env, rateLimitStore, response, watched, admitted, background>>
    /\ UNCHANGED <<optimizerVars, cacheVars, generatorVars, post, storageVars>>

CacheNext ==
    \/ getCachedResponse
    \/ cacheResponse
    \/ clearExpiredCache
    \/ CacheAdvance

CacheSpec == CacheInit /\ [][CacheNext]_vars

\* the step is a call of getCachedResponse(k)
ReadOf(k) ==
    /\ called' # called
    /\ called'.op = "getCachedResponse"
    /\ called'.key = k

\* C13: after cacheResponse(key, data, duration) at time t, a read of key
\* returns that data at every time <= t + duration; at any later time it
\* returns null and the entry is gone afterwards, for any interleaving of
\* reads, writes and runs of clearExpiredCache.
C13_ReadReturnsDataUntilExpiry ==
    [][\A k \in CacheKeys :
         (ReadOf(k) /\ k \in DOMAIN written) =>
            IF now <= written[k].at + written[k].duration
            THEN called'.value = written[k].data /\ k \in DOMAIN cache'
            ELSE called'.value = "null" /\ k \notin DOMAIN cache']_vars

\* a read after the expiry of an entry returned null and removed the entry,
\* while an entry written for the other key with the default duration stays
C13_Witness ==
    /\ called.op = "getCachedResponse"
    /\ called.at = now
    /\ called.value = "null"
    /\ called.key \in DOMAIN written
    /\ written[called.key].duration = 1000
    /\ now = written[called.key].at + 1001
    /\ called.key \notin DOMAIN cache
    /\ \E k \in DOMAIN cache : written[k].duration = DEFAULT_CACHE_DURATION

(***************************************************************************)
(* api-cache.ts: cachedFetch and clearEndpointCache.  Cache parameters are *)
(* sequences of <<name, value>> pairs in insertion order; bodies and       *)
(* values are JSON texts.                                                  *)
(***************************************************************************)
Endpoints == {"/api/x", "/api/x-y"}

\* the parameter names, in the order of Array.prototype.sort
ParamNames == <<"a", "b">>

\* one parameter object, with its names inserted in either order
CacheParams ==
    {<<<<"a", "1">>, <<"b", "2">>>>, <<<<"b", "2">>, <<"a", "1">>>>}

\* JSON bodies of responses: an object and the number 0
FetchBodies == {"{}", "0"}

\* JavaScript truthiness of the value a JSON text denotes
Truthy(json) == json \notin {"0", "null", "false", "\"\""}

\* lines 251-261: the endpoint, a dash and the JSON text of the parameters
\* in sorted name order
generateCacheKey(endpoint, params) ==
    LET sortedNames ==
            SelectSeq(ParamNames,
                      LAMBDA n : \E i \in DOMAIN params : params[i][1] = n)
        valueOf(n) ==
            params[CHOOSE i \in DOMAIN params : params[i][1] = n][2]
        member(i) == "\"" \o sortedNames[i] \o "\":" \o valueOf(sortedNames[i])
        RECURSIVE members(_)
        members(i) ==
            IF i > Len(sortedNames) THEN ""
            ELSE (IF i > 1 THEN "," ELSE "") \o member(i) \o members(i + 1)
    IN  endpoint \o "-" \o "{" \o members(1) \o "}"

\* lines 347-374; the response of fetch is whatever the server sends
cachedFetch ==
    \E url \in Endpoints, cacheParams \in CacheParams,
       cacheDuration \in {1000, DEFAULT_CACHE_DURATION} :
      LET cacheKey == generateCacheKey(url, cacheParams)
          found == cacheKey \in DOMAIN cache
          \* getCachedResponse(cacheKey)
          read == IF found /\ Expired(cache[cacheKey], now)
                  THEN Without(cache, cacheKey) ELSE cache
          cachedData == IF cacheKey \in DOMAIN read THEN read[cacheKey].data
                        ELSE "null"
      IN  IF Truthy(cachedData)
          THEN /\ called' = [op |-> "cachedFetch", key |-> cacheKey,
                             value |-> cachedData, at |-> now,
                             fetched |-> FALSE, ok |-> FALSE]
               /\ cache' = read
               /\ UNCHANGED written
               /\ UNCHANGED <<optimizerVars, middlewareVars,
                              generatorVars, post, storageVars>>
          ELSE \E ok \in BOOLEAN, data \in FetchBodies :
               /\ called' = [op |-> "cachedFetch", key |-> cacheKey,
                             value |-> data, at |-> now,
                             fetched |-> TRUE, ok |-> ok]
               /\ cache' = IF ok
                           THEN With(read, cacheKey,
                                     [data |-> data, timestamp |-> now,
                                      expiresAt |-> now + cacheDuration])
                           ELSE read
               /\ written' = IF ok
                             THEN With(written, cacheKey,
                                       [data |-> data, at |-> now,
                                        duration |-> cacheDuration,
                                        endpoint |-> url])
                             ELSE written
               /\ UNCHANGED <<optimizerVars, middlewareVars,
                              generatorVars, post, storageVars>>

\* lines 330-336; an entry cleared is no longer one that was written
clearEndpointCache ==
    \E endpoint \in Endpoints :
      LET kept == {key \in DOMAIN cache : ~StartsWith(key, endpoint \o "-")}
      IN  /\ cache' = [key \in kept |-> cache[key]]
          /\ written' = [key \in (DOMAIN written) \cap kept |-> written[key]]
          /\ called' = [op |-> "clearEndpointCache", key |-> endpoint,
                        value |-> "undefined", at |-> now,
                        fetched |-> FALSE, ok |-> FALSE]
          /\ UNCHANGED <<optimizerVars, middlewareVars,
                         generatorVars, post, storageVars>>

FetchNext ==
    \/ cachedFetch
    \/ clearEndpointCache
    \/ CacheAdvance

FetchSpec == CacheInit /\ [][FetchNext]_vars

\* the step is a call of cachedFetch whose cache key is k
FetchOf(k) ==
    /\ called' # called
    /\ called'.op = "cachedFetch"
    /\ called'.key = k

\* C27: once a call for a URL and cacheParams has had an ok response and
\* cached its body, every later cachedFetch with the same URL and cacheParams,
\* in any order of the parameter names, made before the entry expires returns
\* that body without calling fetch, whatever the body is; and a call whose
\* response is not ok creates no cache entry and changes none.
C27_CachedBodyServedWithoutFetch ==
    [][\A k \in DOMAIN written :
         FetchOf(k) =>
            /\ now <= written[k].at + written[k].duration
                  => /\ ~called'.fetched
                     /\ called'.value = written[k].data
            /\ (called'.fetched /\ ~called'.ok)
                  => \A j \in DOMAIN cache' :
                        j \in DOMAIN cache /\ cache'[j] = cache[j]]_vars

\* the same for the bodies that are truthy JavaScript values
TruthyBodyServedWithoutFetch ==
    [][\A k \in DOMAIN written :
         (FetchOf(k) /\ Truthy(written[k].data)) =>
            /\ now <= written[k].at + written[k].duration
                  => /\ ~called'.fetched
                     /\ called'.value = written[k].data
            /\ (called'.fetched /\ ~called'.ok)
                  => \A j \in DOMAIN cache' :
                        j \in DOMAIN cache /\ cache'[j] = cache[j]]_vars

\* C28: clearEndpointCache(e) removes exactly the entries whose key was
\* generated for endpoint e and leaves every entry generated for another
\* endpoint in place.
C28_ClearsExactlyTheEndpoint ==
    [][(called' # called /\ called'.op = "clearEndpointCache") =>
          /\ DOMAIN cache' =
                {key \in DOMAIN cache : written[key].endpoint # called'.key}
          /\ \A key \in DOMAIN cache' : cache'[key] = cache[key]]_vars

(***************************************************************************)
(* storage.ts: the saved trips, in a browser (window is defined and        *)
(* localStorage accepts the writes).  A trip is its id and its data; ids   *)
(* are numbers issued in increasing order, as Date.now() gives them.       *)
(***************************************************************************)
MAX_SAVED_TRIPS == 10

\* new ids issued, in-place saves and deletions per run
MaxSaved == 11
MaxUpdated == 1
MaxDeleted == 1

\* Array.prototype.shift: the list without its first element
shift(list) == SubSeq(list, 2, Len(list))

\* Array.prototype.pop: the list without its last element
pop(list) == SubSeq(list, 1, Len(list) - 1)

\* lines 96-120: saveTrip(trip) with a stored id and any data, or with the
\* next new id
saveTrip ==
    \E id \in {savedTrips[i].id : i \in DOMAIN savedTrips} \cup {tripCall.saved + 1},
       destination \in {"Paris", "Rome"} :
      LET trip == [id |-> id, destination |-> destination]
          existing == {i \in DOMAIN savedTrips : savedTrips[i].id = id}
          unshifted == <<trip>> \o savedTrips
      IN  /\ IF existing # {} THEN tripCall.updated < MaxUpdated
             ELSE tripCall.saved < MaxSaved /\ destination = "Paris"
          /\ savedTrips' =
                IF existing # {}
                THEN [savedTrips EXCEPT ![CHOOSE i \in existing :
                                            \A j \in existing : i <= j] = trip]
                ELSE IF Len(unshifted) > MAX_SAVED_TRIPS THEN pop(unshifted)
                ELSE unshifted
          /\ tripCall' =
                IF existing # {}
                THEN [tripCall EXCEPT !.op = "saveTrip", !.id = id,
                                      !.updated = @ + 1]
                ELSE [tripCall EXCEPT !.op = "saveTrip", !.id = id,
                                      !.saved = @ + 1]
          /\ UNCHANGED <<optimizerVars, middlewareVars, cacheVars, generatorVars,
                         post>>

\* lines 123-134: deleteTrip(tripId)
deleteTrip ==
    \E tripId \in 1..MaxSaved :
      /\ tripCall.deleted < MaxDeleted
      /\ savedTrips' = SelectSeq(savedTrips, LAMBDA trip : trip.id # tripId)
      /\ tripCall' = [tripCall EXCEPT !.op = "deleteTrip", !.id = tripId,
                                      !.deleted = @ + 1]
      /\ UNCHANGED <<optimizerVars, middlewareVars, cacheVars, generatorVars,
                     post>>

StorageNext ==
    \/ saveTrip
    \/ deleteTrip

StorageSpec == Init /\ [][StorageNext]_vars

\* the ids of a list of trips, in list order
IdsOf(trips) == [i \in DOMAIN trips |-> trips[i].id]

Ascii ==
    " !\t#$%&'()*+,-./0123456789:;<=>?@ABCDEFGHIJKLMNOPQRSTUVWXYZ[\t]^_\tabcdefghijklmnopqrstuvwxyz{|}~"

\* str.charCodeAt(i - 1)
charCodeAt(str, i) ==
    31 + (CHOOSE k \in 1..Len(Ascii) : SubSeq(Ascii, k, k) = SubSeq(str, i, i))

\* the loop of hashString: hash = ((hash << 5) - hash) + char, then
\* hash = hash & hash, which cuts the sum to a signed 32-bit integer; the
\* sum is computed in 16-bit halves.  The characters are taken from first
\* to last, the first half of a range before its second half.
hashLoop(str) ==
    LET step(h, i) ==
            LET low == 31 * (h % 65536) + charCodeAt(str, i)
                high == 31 * (h \div 65536) + (low \div 65536)
            IN  (((high + 32768) % 65536) - 32768) * 65536 + (low % 65536)
        RECURSIVE loop(_, _, _)
        loop(from, to, h) ==
            IF from > to THEN h
            ELSE IF from = to THEN step(h, from)
            ELSE LET firstHalf == loop(from, (from + to) \div 2, h)
                 IN  IF firstHalf \in Int
                     THEN loop(((from + to) \div 2) + 1, to, firstHalf)
                     ELSE firstHalf
    IN  loop(1, Len(str), 0)

\* hashString without the final Math.abs
hashStringSigned(str) ==
    <<hashLoop(str) \div 65536, hashLoop(str) % 65536>>

\* hashString: the loop, then Math.abs; the absolute value of -2^31 is
\* 2^31, the pair <<32768, 0>>
hashString(str) ==
    LET hash == hashLoop(str)
    IN  IF hash >= 0 THEN <<hash \div 65536, hash % 65536>>
        ELSE IF hash % 65536 = 0 THEN <<-(hash \div 65536), 0>>
        ELSE <<(-hash) \div 65536, (-hash) % 65536>>

\* (seed + k) % n as JavaScript computes it for integers: the remainder
\* takes the sign of the dividend
Rem(seed, k, n) ==
    LET m == ((seed[1] % n) * (65536 % n) + seed[2] + k) % n
        negative == seed[1] < -1 \/ (seed[1] = -1 /\ seed[2] + k < 65536)
    IN  IF negative /\ m # 0 THEN m - n ELSE m

\* destination.split(',')[0].trim()
CityOf(destination) ==
    LET commas == {i \in 1..Len(destination) : SubSeq(destination, i, i) = ","}
        first == IF commas = {} THEN destination
                 ELSE SubSeq(destination, 1,
                             (CHOOSE i \in commas : \A j \in commas : i <= j) - 1)
        inner == {i \in 1..Len(first) : SubSeq(first, i, i) # " "}
    IN  IF inner = {} THEN ""
        ELSE SubSeq(first, CHOOSE i \in inner : \A j \in inner : i <= j,
                    CHOOSE i \in inner : \A j \in inner : i >= j)

\* Array.prototype.sort((a, b) => a.price - b.price): stable, and a
\* comparison with NaN counts as "equal"
SortByPrice(items) ==
    LET RECURSIVE sorted(_)
        sorted(n) ==
            IF n = 0 THEN <<>>
            ELSE LET before == sorted(n - 1)
                     x == items[n]
                     keep == {j \in 1..Len(before) :
                                 x.nan \/ before[j].nan \/ before[j].price <= x.price}
                     at == IF keep = {} THEN 0
                           ELSE CHOOSE j \in keep : \A k \in keep : k <= j
                 IN  SubSeq(before, 1, at) \o <<x>> \o SubSeq(before, at + 1, n - 1)
    IN  sorted(Len(items))

\* flights.ts generateFlights with calculateFlightDuration and
\* calculateBaseFlightPrice; isoDate is departureDate.toISOString().  The
\* price is rounded from the exact product.
generateFlights(originCity, destinationCity, isoDate, passengers) ==
    LET seed == hashString(originCity \o "-" \o destinationCity \o "-" \o isoDate)
        cityPairHash == hashString(originCity \o "-" \o destinationCity)
        numFlights == 3 + Rem(seed, 0, 5)
        flight(i) ==
            LET baseDuration == Rem(cityPairHash, 0, 12) + 3
                durationVariance == Rem(seed, i, 5) - 2
                durationHours == IF baseDuration + durationVariance < 1 THEN 1
                                 ELSE baseDuration + durationVariance
                basePrice == 150 + durationHours * 70
                             + (Rem(cityPairHash, 0, 60) - 30)
                percent == 85 + Rem(seed, i * 17, 30)
            IN  [from |-> originCity, index |-> i, nan |-> FALSE,
                 price |-> (basePrice * percent * passengers + 50) \div 100]
    IN  SortByPrice([n \in 1..numFlights |-> flight(n - 1)])

\* new Date(text) for the texts of the model: a day of June 2025 has its
\* day number and its ISO form, any other text is an invalid date
IsDate(text) == Len(text) = 10 /\ SubSeq(text, 1, 8) = "2025-06-"

\* flights.ts searchFlights: the outbound flights followed by the return
\* flights; toISOString of an invalid date raises, which the catch turns
\* into an empty list
searchFlights(destination, departDate, returnDate, passengers) ==
    IF ~IsDate(departDate) \/ ~IsDate(returnDate) THEN <<>>
    ELSE generateFlights("New York", CityOf(destination),
                         departDate \o "T00:00:00.000Z", passengers)
         \o generateFlights(CityOf(destination), "New York",
                            returnDate \o "T00:00:00.000Z", passengers)

\* hotels.ts getBasePrice: Math.round(100 * typeMultiplier *
\* Math.pow(1.3, rating - 3)) for the ratings 3.0, 3.1, ..., 4.9, given in
\* tenths, as IEEE doubles compute it
getBasePrice(accommodationType, ratingTenths) ==
    IF accommodationType = "hostel"
    THEN <<40, 41, 42, 43, 44, 46, 47, 48, 49, 51,
           52, 53, 55, 56, 58, 59, 61, 62, 64, 66>>[ratingTenths - 29]
    ELSE <<100, 103, 105, 108, 111, 114, 117, 120, 123, 127,
           130, 133, 137, 141, 144, 148, 152, 156, 160, 165>>[ratingTenths - 29]

\* hotels.ts searchHotels with generateHotels
searchHotels(destination, checkInDate, checkOutDate, guests, accommodationType) ==
    LET valid == IsDate(checkInDate) /\ IsDate(checkOutDate)
        dayOf(text) == 10 * (charCodeAt(text, 9) - 48) + charCodeAt(text, 10) - 48
        nights == IF valid THEN dayOf(checkOutDate) - dayOf(checkInDate) ELSE 0
        seed == hashString(destination \o "-" \o checkInDate \o "-" \o checkOutDate)
        numHotels == 8 + Rem(seed, 0, 8)
        hotel(i) ==
            LET basePrice == getBasePrice(accommodationType,
                                          30 + Rem(seed, i * 100, 20))
                pricePerNight ==
                    (basePrice * (85 + Rem(seed, i * 100, 30)) + 50) \div 100
            IN  [index |-> i, nan |-> ~valid,
                 price |-> pricePerNight * nights * ((guests + 1) \div 2)]
    IN  SortByPrice([n \in 1..numHotels |-> hotel(n - 1)])

\* weather route, generateMockWeatherData lines 146-159
conditionOf(rainChance, maxTemp) ==
    LET condition == IF rainChance > 70 THEN "rainy"
                     ELSE IF rainChance > 40 THEN "cloudy"
                     ELSE IF rainChance > 20 THEN "partly-cloudy"
                     ELSE "sunny"
    IN  IF condition = "rainy" /\ maxTemp < 2 THEN "snowy" ELSE condition

\* weather route, generateMockWeatherData: month is date.getMonth(), wave
\* is Math.sin(date.getDate() * locationHash) and random, in hundredths,
\* is the Math.random() of line 144
generateMockWeatherData(location, month, wave, random) ==
    LET RECURSIVE sum(_)
        sum(i) ==
            IF i = 0 THEN 0
            ELSE LET code == charCodeAt(location, i)
                 IN  sum(i - 1) + (IF code \in 65..90 THEN code + 32 ELSE code)
        locationHash == sum(Len(location))
        baseTemp == 10 + (locationHash % 25)
        seasonalTemp == IF month >= 5 /\ month <= 8 THEN 8
                        ELSE IF month >= 11 \/ month <= 2 THEN -8
                        ELSE 0
        maxTemp == baseTemp + seasonalTemp + (wave + 1) * 3
        rainChance == (20 * (locationHash % 10) + random + 1) \div 2
    IN  [temperature |-> [max |-> maxTemp],
         condition |-> conditionOf(rainChance, maxTemp),
         precipitation_chance |-> rainChance]

\* what a call returns; random is the value Math.random() takes in it
Result(req, random) ==
    CASE req.fn = "hashString" -> hashString(req.str)
      [] req.fn = "searchFlights" ->
            searchFlights(req.destination, req.from, req.to, req.count)
      [] req.fn = "searchHotels" ->
            searchHotels(req.destination, req.from, req.to, req.count, req.type)
      [] req.fn = "generateMockWeatherData" ->
            generateMockWeatherData(req.location, req.month, req.wave, random)
      [] req.fn = "formatCurrency" ->
            LET text == formatCurrency(Rat(req.cents, 100))
            IN  [text |-> text, parsed |-> parseCurrency(Str(text))]

(***************************************************************************)
(* Calls of the generators and of the currency utilities, one call per     *)
(* step; Repeat calls the same function again with the same arguments.     *)
(***************************************************************************)
MaxLen == 3

RECURSIVE TextsUpTo(_)
\* the texts of at most n characters among "a", "~" and the blank
TextsUpTo(n) ==
    IF n = 0 THEN {""}
    ELSE TextsUpTo(n - 1) \cup {t \o c : t \in TextsUpTo(n - 1), c \in {"a", "~", " "}}

\* "xfjfxtf" is a text whose hash is -2^31 before Math.abs
HashTexts ==
    TextsUpTo(MaxLen) \cup {"Paris", "Tokyo, Japan", "xfjfxtf", "Paris-2025-06-01-2025-06-05"}

Destinations == {"Paris", "Rome", "Tokyo, Japan"}
DateTexts == {"2025-06-01", "2025-06-05", "2025-06-10", "soon"}
HeadCounts == {-3, 0, 2}
Randoms == {0, 20, 40, 60, 80, 99}

\* the call req returns; random is what Math.random() gives in it
Return(req, random) ==
    /\ request' = req
    /\ reply' = [made |-> TRUE, value |-> Result(req, random)]
    /\ again' = NoReply
    /\ UNCHANGED <<optimizerVars, middlewareVars,
                   cacheVars, post, storageVars>>

\* one call is followed in a behaviour
CallHashString ==
    /\ request = NoRequest
    /\ \E str \in HashTexts : Return([fn |-> "hashString", str |-> str], 0)

CallSearchFlights ==
    /\ request = NoRequest
    /\ \E destination \in Destinations, from \in DateTexts, to \in DateTexts,
          count \in HeadCounts :
        Return([fn |-> "searchFlights", destination |-> destination,
                from |-> from, to |-> to, count |-> count], 0)

CallSearchHotels ==
    /\ request = NoRequest
    /\ \E destination \in Destinations, from \in DateTexts, to \in DateTexts,
          count \in HeadCounts, type \in {"hotel", "hostel"} :
        Return([fn |-> "searchHotels", destination |-> destination,
                from |-> from, to |-> to, count |-> count, type |-> type], 0)

CallGenerateMockWeatherData ==
    /\ request = NoRequest
    /\ \E location \in {"London", "Paris", "Rome"}, month \in {0, 3, 6},
          wave \in {-1, 0, 1}, random \in Randoms :
        Return([fn |-> "generateMockWeatherData", location |-> location,
                month |-> month, wave |-> wave], random)

CallFormatCurrency ==
    /\ request = NoRequest
    /\ \E cents \in {0, 1, 99, 100, 99999, 100000, 123450, 1000000, 99999999} :
        Return([fn |-> "formatCurrency", cents |-> cents], 0)

\* the same call a second time
Repeat ==
    /\ reply.made
    /\ ~again.made
    /\ \E random \in Randoms :
        again' = [made |-> TRUE, value |-> Result(request, random)]
    /\ UNCHANGED <<request, reply, optimizerVars,
                   middlewareVars, cacheVars, post, storageVars>>

GeneratorNext ==
    \/ CallHashString
    \/ CallSearchFlights
    \/ CallSearchHotels
    \/ CallGenerateMockWeatherData
    \/ CallFormatCurrency
    \/ Repeat

GeneratorSpec == Init /\ [][GeneratorNext]_vars

(***************************************************************************)
(* activities.ts: findActivities.  An activity is its id, its category,    *)
(* its price and its rating; the id is the number that follows             *)
(* "activity-", a pair <<hi, lo>> like the seed, and the rating is counted *)
(* in twentieths.  Interests are lower-case texts.                         *)
(***************************************************************************)
\* lines 68-109 and 418-432: name, interests and ten times the price
\* multiplier of every category
categories ==
    <<[name |-> "Sightseeing", multiplier |-> 10,
       interests |-> <<"history", "culture", "architecture", "sightseeing">>],
      [name |-> "Cultural", multiplier |-> 12,
       interests |-> <<"history", "culture", "art", "museums", "education">>],
      [name |-> "Food & Drink", multiplier |-> 15,
       interests |-> <<"food", "culinary", "wine", "local cuisine", "gastronomy">>],
      [name |-> "Nature & Outdoors", multiplier |-> 9,
       interests |-> <<"nature", "outdoors", "hiking", "wildlife", "adventure">>],
      [name |-> "Adventure", multiplier |-> 18,
       interests |-> <<"adventure", "adrenaline", "sports", "extreme", "active">>],
      [name |-> "Entertainment", multiplier |-> 17,
       interests |-> <<"entertainment", "nightlife", "shows", "fun", "music">>],
      [name |-> "Shopping", multiplier |-> 5,
       interests |-> <<"shopping", "markets", "local products", "souvenirs">>],
      [name |-> "Relaxation", multiplier |-> 14,
       interests |-> <<"relaxation", "wellness", "spa", "peaceful", "mindfulness">>]>>

\* generateActivity(city, category.name, ..., seed + plus): lines 178-191
\* and 265; the price is rounded from the exact product
generateActivity(category, seed, plus) ==
    LET hours == Rem(seed, plus, 10) % 6
        durationHours == IF hours < 1 THEN 1 ELSE hours
        basePrice == (20 * durationHours * category.multiplier + 5) \div 10
        low == seed[2] + plus
    IN  [id |-> <<seed[1] + (low \div 65536), low % 65536>>,
         category |-> category.name,
         price |-> (basePrice * (80 + Rem(seed, plus, 40)) + 50) \div 100,
         rating |-> 70 + Rem(seed, plus, 30)]

\* the comparator of line 151 puts a before b, or leaves them as they are
NotAfter(a, b) == a.rating > b.rating \/ (a.rating = b.rating /\ a.price <= b.price)

\* Array.prototype.sort with that comparator (a stable sort)
SortByRating(items) ==
    LET RECURSIVE sorted(_)
        sorted(n) ==
            IF n = 0 THEN <<>>
            ELSE LET before == sorted(n - 1)
                     keep == {j \in 1..Len(before) : NotAfter(before[j], items[n])}
                     at == IF keep = {} THEN 0
                           ELSE CHOOSE j \in keep : \A k \in keep : k <= j
                 IN  SubSeq(before, 1, at) \o <<items[n]>>
                     \o SubSeq(before, at + 1, n - 1)
    IN  sorted(Len(items))

\* generateActivities(city, interests, tripDuration, hashString(destination))
findActivities(destination, interests, tripDuration) ==
    LET seed == hashString(destination)
        wanted == tripDuration * 4 + 10
        numActivities == IF wanted > 50 THEN 50 ELSE wanted
        userInterests == IF Len(interests) > 0 THEN interests
                         ELSE <<"history", "food", "culture", "nature">>
        matchingCategories(interest) ==
            SelectSeq(categories,
                      LAMBDA category :
                          \E c \in DOMAIN category.interests :
                              \/ Includes(category.interests[c], interest)
                              \/ Includes(interest, category.interests[c]))
        \* the activities after the first loop has run for 0 .. i - 1
        RECURSIVE forInterests(_)
        forInterests(i) ==
            IF i = 0 THEN <<>>
            ELSE LET matching == matchingCategories(userInterests[i])
                 IN  IF Len(matching) > 0
                     THEN Append(forInterests(i - 1),
                                 generateActivity(
                                     matching[Rem(seed, i - 1, Len(matching)) + 1],
                                     seed, (i - 1) * 100))
                     ELSE forInterests(i - 1)
        first == forInterests(IF Len(userInterests) < Len(categories)
                              THEN Len(userInterests) ELSE Len(categories))
        remainingActivities == numActivities - Len(first)
        \* the activities after the second loop has run for 0 .. i - 1, the
        \* list being Len(first) + i - 1 long when it runs for i - 1
        RECURSIVE filled(_)
        filled(i) ==
            IF i <= 0 THEN first
            ELSE LET length == Len(first) + i - 1
                 IN  Append(filled(i - 1),
                            generateActivity(
                                categories[Rem(seed, i - 1 + length,
                                               Len(categories)) + 1],
                                seed, (i - 1 + length) * 100))
    IN  SortByRating(filled(remainingActivities))

(***************************************************************************)
(* generate-itinerary route: generateMockItinerary.  A date n stands for   *)
(* the text '2025-03-n', which new Date reads as midnight UTC of that day; *)
(* instants are hours since the midnight UTC that begins day 0.  The       *)
(* process runs in a time zone, which Date's local-time methods follow.    *)
(* The values of Math.random() are taken in turn from a list of            *)
(* hundredths.                                                             *)
(***************************************************************************)
\* String.prototype.toLowerCase on texts of ASCII characters
toLowerCase(str) ==
    LET upper == "ABCDEFGHIJKLMNOPQRSTUVWXYZ"
        lower == "abcdefghijklmnopqrstuvwxyz"
        RECURSIVE lowered(_)
        lowered(n) ==
            IF n = 0 THEN ""
            ELSE LET c == SubSeq(str, n, n)
                     at == {k \in 1..26 : SubSeq(upper, k, k) = c}
                 IN  lowered(n - 1)
                     \o (IF at = {} THEN c
                         ELSE LET k == CHOOSE k \in at : TRUE
                              IN  SubSeq(lower, k, k))
    IN  lowered(Len(str))

\* parseFloat(cost.replace('$', '')) of a cost text
CostOf(cost) ==
    LET chars == [i \in 1..Len(cost) |-> SubSeq(cost, i, i)]
        at == {i \in 1..Len(cost) : chars[i] = "$"}
        first == IF at = {} THEN 0 ELSE CHOOSE i \in at : \A j \in at : i <= j
    IN  parseFloat(IF first = 0 THEN chars
                   ELSE SubSeq(chars, 1, first - 1)
                        \o SubSeq(chars, first + 1, Len(chars)))

\* lines 186-285: the costs of the pool of activities of a destination
generateActivities(destination) ==
    LET commonActivities == <<"$10", "$20", "$15">>
        place == toLowerCase(destination)
    IN  IF Includes(place, "paris") THEN commonActivities \o <<"$25", "$17", "$15">>
        ELSE IF Includes(place, "tokyo")
        THEN commonActivities \o <<"$0", "$20", "$30">>
        ELSE IF Includes(place, "barcelona")
        THEN commonActivities \o <<"$27", "$10", "$0">>
        ELSE commonActivities \o <<"$5", "$35">>

\* lines 332-400: the costs of the accommodations of a destination
generateAccommodations(destination, type) ==
    LET place == toLowerCase(destination)
        pick(luxury, budget, standard) ==
            IF type = "luxury" THEN luxury
            ELSE IF type = "budget" THEN budget ELSE standard
    IN  <<pick("$250", "$40", "$120")>>
        \o (IF Includes(place, "paris") THEN <<pick("$280", "$45", "$140")>>
            ELSE IF Includes(place, "tokyo") THEN <<pick("$300", "$35", "$150")>>
            ELSE <<>>)

\* lines 403-423: the cost of a day's transportation
generateTransportation(preference) ==
    IF preference = "rental" THEN "$45"
    ELSE IF preference = "taxi" THEN "$30" ELSE "$10"

TimeZones == {"UTC", "America/New_York"}

\* daylight saving time begins in New York on 9 March 2025 at 07:00 UTC,
\* when the local clocks go from 02:00 to 03:00
OffsetAt(zone, instant) ==
    IF zone = "UTC" THEN 0 ELSE IF instant >= 24 * 9 + 7 THEN -4 ELSE -5

OffsetOfLocal(zone, local) ==
    IF zone = "UTC" THEN 0 ELSE IF local >= 24 * 9 + 3 THEN -4 ELSE -5

\* lines 129-130 and 153: the date of day i of a trip that starts on date
\* start; setDate and getDate work on the local date, toISOString on UTC
DateOfDay(zone, start, i) ==
    LET local == 24 * start + OffsetAt(zone, 24 * start)
        moved == 24 * ((local \div 24) + i) + (local % 24)
    IN  (moved - OffsetOfLocal(zone, moved)) \div 24

\* Number.prototype.toFixed(2) of a rational that is not negative
toFixed2(r) ==
    LET cents == (2 * r[1] * 100 + r[2]) \div (2 * r[2])
    IN  IntToDigits(cents \div 100)
        \o <<".", Digits[((cents \div 10) % 10) + 1], Digits[(cents % 10) + 1]>>

\* lines 79-183; the budget message and the travel tips are left out.  A
\* date that new Date cannot read is the date 0: the duration is then NaN
\* and the loop does not run.
generateMockItinerary(destination, startDate, endDate, preferences, zone, randoms) ==
    LET invalid == startDate = 0 \/ endDate = 0
        durationDays == IF invalid THEN 0 ELSE endDate - startDate + 1
        activities == generateActivities(destination)
        accommodations ==
            generateAccommodations(destination, preferences.accommodationType)
        transportation ==
            generateTransportation(preferences.transportationPreference)
        random(call) == randoms[(call % Len(randoms)) + 1]
        \* the days after i runs of the loop, the calls of Math.random made
        \* and the total cost
        RECURSIVE loop(_)
        loop(i) ==
            IF i <= 0 THEN [days |-> <<>>, calls |-> 0, totalCost |-> RZero]
            ELSE LET before == loop(i - 1)
                     numActivities == ((random(before.calls) * 3) \div 100) + 2
                     dayActivities ==
                         [j \in 1..numActivities |->
                             activities[((random(before.calls + j)
                                             * Len(activities)) \div 100) + 1]]
                     accommodation ==
                         accommodations[((i - 1) % Len(accommodations)) + 1]
                     dayCost ==
                         SumRat([j \in 1..(numActivities + 2) |->
                                    CostOf(IF j = 1 THEN accommodation
                                           ELSE IF j = 2 THEN transportation
                                           ELSE dayActivities[j - 2]).val])
                 IN  [days |->
                         Append(before.days,
                                [date |-> DateOfDay(zone, startDate, i - 1),
                                 activities |-> dayActivities,
                                 accommodation |-> accommodation,
                                 transportation |-> transportation]),
                      calls |-> before.calls + 1 + numActivities,
                      totalCost |-> RAdd(before.totalCost, dayCost)]
        made == loop(durationDays)
    IN  [days |-> made.days,
         totalCost |-> <<"$">> \o toFixed2(made.totalCost)]

\* one call of findActivities or of generateMockItinerary is followed
CallFindActivities ==
    /\ request = NoRequest
    /\ \E destination \in Destinations, tripDuration \in {0, 1, 2, 10, 11},
          interests \in {<<>>, <<"food">>, <<"xyz", "food">>,
                         <<"history", "art", "xyz">>, <<"">>} :
        /\ request' = [fn |-> "findActivities", destination |-> destination,
                       interests |-> interests, tripDuration |-> tripDuration]
        /\ reply' = [made |-> TRUE,
                     value |-> findActivities(destination, interests, tripDuration)]
    /\ UNCHANGED <<again, optimizerVars, middlewareVars, cacheVars, post,
                   storageVars>>

CallGenerateMockItinerary ==
    /\ request = NoRequest
    /\ \E destination \in Destinations, startDate \in {0, 8, 9},
          endDate \in {0, 7, 8, 9, 10, 11},
          accommodationType \in {"budget", "standard"},
          transportationPreference \in {"public", "rental"},
          zone \in TimeZones, randoms \in {<<0>>, <<99>>, <<50, 10, 90>>} :
        /\ request' = [fn |-> "generateMockItinerary", startDate |-> startDate,
                       endDate |-> endDate, zone |-> zone]
        /\ reply' = [made |-> TRUE,
                     value |-> generateMockItinerary(
                         destination, startDate, endDate,
                         [accommodationType |-> accommodationType,
                          transportationPreference |-> transportationPreference],
                         zone, randoms)]
    /\ UNCHANGED <<again, optimizerVars, middlewareVars, cacheVars, post,
                   storageVars>>

PlannerNext ==
    \/ CallFindActivities
    \/ CallGenerateMockItinerary

PlannerSpec == Init /\ [][PlannerNext]_vars

\* C30: for tripDuration >= 1 and any list of interests, findActivities
\* returns exactly min(50, 4 * tripDuration + 10) activities, sorted by
\* rating from high to low and, among equal ratings, by price from low to
\* high, and no two of the activities returned have the same id.
C30_CountOrderAndDistinctIds ==
    (reply.made /\ request.fn = "findActivities" /\ request.tripDuration >= 1)
    => LET found == reply.value
           wanted == 4 * request.tripDuration + 10
       IN  /\ Len(found) = IF wanted > 50 THEN 50 ELSE wanted
           /\ \A i \in 1..(Len(found) - 1) :
                 \/ found[i].rating > found[i + 1].rating
                 \/ /\ found[i].rating = found[i + 1].rating
                    /\ found[i].price <= found[i + 1].price
           /\ \A i, j \in DOMAIN found : found[i].id = found[j].id => i = j

\* the same without the distinct ids
CountAndOrderOfActivities ==
    (reply.made /\ request.fn = "findActivities" /\ request.tripDuration >= 1)
    => LET found == reply.value
           wanted == 4 * request.tripDuration + 10
       IN  /\ Len(found) = IF wanted > 50 THEN 50 ELSE wanted
           /\ \A i \in 1..(Len(found) - 1) :
                 \/ found[i].rating > found[i + 1].rating
                 \/ /\ found[i].rating = found[i + 1].rating
                    /\ found[i].price <= found[i + 1].price

\* the draft of generateMockItinerary has one day for every date from
\* startDate to endDate, in order, each with 2 to 4 activities, and its
\* totalCost is the sum of all the costs of its days
DraftCoversTheDates ==
    LET draft == reply.value
    IN  /\ Len(draft.days) = IF request.endDate < request.startDate THEN 0
                             ELSE request.endDate - request.startDate + 1
        /\ \A i \in DOMAIN draft.days :
              /\ draft.days[i].date = request.startDate + i - 1
              /\ Len(draft.days[i].activities) \in 2..4
        /\ parseFloat(Tail(draft.totalCost)).val =
              SumRat([i \in DOMAIN draft.days |->
                         RAdd(RAdd(CostOf(draft.days[i].accommodation).val,
                                   CostOf(draft.days[i].transportation).val),
                              SumRat([j \in DOMAIN draft.days[i].activities |->
                                         CostOf(draft.days[i].activities[j]).val]))])

\* C21: the draft itinerary built by generateMockItinerary has exactly one
\* Day per calendar date from startDate to endDate inclusive, each with one
\* accommodation, one transportation and 2 to 4 activities, and its
\* totalCost equals the sum over all days of the accommodation, the
\* transportation and the activity costs.
C21_OneDayPerDateAndTotal ==
    (/\ reply.made
     /\ request.fn = "generateMockItinerary"
     /\ request.startDate # 0
     /\ request.endDate # 0)
    => DraftCoversTheDates

\* the same for a process whose time zone is UTC
OneDayPerDateAndTotalInUTC ==
    (/\ reply.made
     /\ request.fn = "generateMockItinerary"
     /\ request.startDate # 0
     /\ request.endDate # 0
     /\ request.zone = "UTC")
    => DraftCoversTheDates

(***************************************************************************)
(* POST /api/itinerary (route.ts of api/itinerary): the request body is    *)
(* read, checked, handed to the four inventory calls under Promise.all,    *)
(* then to generateItinerary and optimizeBudget.  A destination is a JSON  *)
(* value (Str, Num or Undefined); a date is a text, "" when it is missing. *)
(***************************************************************************)
\* a UTF-16 surrogate without its pair, as JSON.parse gives for "\ud800"
LoneSurrogate == "\\ud800"

PostBodies ==
    [destination : {Undefined, Num(<<42, 1>>), Str(<<"P", "a", "r", "i", "s">>),
                    Str(<<LoneSurrogate>>)},
     budget : {0, 1000},
     startDate : {"", "2025-06-01", "2025-06-05", "soon"},
     endDate : {"", "2025-06-01", "2025-06-05", "soon"}]

\* what each inventory call gives for a body that passed the checks: failed
\* tells whether an exception was raised inside the call, result whether the
\* call returned items, returned the empty list of its catch block, or
\* rejected
InventoryResults(body) ==
    LET text == body.destination.t = "str"
        \* destination.split is not a function unless destination is a string
        \* (flights.ts 43, hotels.ts 44, activities.ts 42); toISOString raises
        \* a RangeError on an invalid date (flights.ts 106)
        caught(failed) ==
            [failed |-> failed, result |-> IF failed THEN "empty" ELSE "items"]
        \* encodeURIComponent raises a URIError on a lone surrogate (maps.ts
        \* 78); the catch of getMapData raises a new Error (maps.ts 47-50)
        malformed == text /\ \E i \in DOMAIN body.destination.s :
                                 body.destination.s[i] = LoneSurrogate
    IN  [searchFlights |->
             caught(~text \/ ~IsDate(body.startDate) \/ ~IsDate(body.endDate)),
         searchHotels |-> caught(~text),
         findActivities |-> caught(~text),
         getMapData |->
             [failed |-> malformed,
              result |-> IF malformed THEN "rejected" ELSE "items"]]

\* a request arrives; request.json() is awaited
POST ==
    /\ post.stage = "idle"
    /\ \E body \in PostBodies, json \in BOOLEAN :
        post' = IF json THEN [post EXCEPT !.stage = "json", !.body = body]
                ELSE [post EXCEPT !.stage = "answered", !.thrown = "json",
                                  !.status = 500]
    /\ UNCHANGED <<optimizerVars, middlewareVars,
                   cacheVars, generatorVars, storageVars>>

\* lines 302-327: the required fields, the trip duration, and the four
\* inventory calls started together
Validate ==
    /\ post.stage = "json"
    /\ LET data == post.body
           dayOf(text) == DigitVal(SubSeq(text, 9, 9)) * 10
                          + DigitVal(SubSeq(text, 10, 10))
           missing == \/ data.destination.t = "undef"
                      \/ data.budget = 0
                      \/ data.startDate = ""
                      \/ data.endDate = ""
           \* tripDuration < 1 is false when tripDuration is NaN
           tooShort == /\ IsDate(data.startDate)
                       /\ IsDate(data.endDate)
                       /\ dayOf(data.endDate) - dayOf(data.startDate) < 1
       IN  post' = IF missing \/ tooShort
                   THEN [post EXCEPT !.stage = "answered", !.status = 400]
                   ELSE [post EXCEPT !.stage = "Promise.all",
                                     !.results = InventoryResults(data)]
    /\ UNCHANGED <<optimizerVars, middlewareVars,
                   cacheVars, generatorVars, storageVars>>

\* Promise.all settles: it rejects when one of the four calls rejects, and
\* the catch of the handler answers 500
PromiseAll ==
    /\ post.stage = "Promise.all"
    /\ post' = IF \E source \in DOMAIN post.results :
                      post.results[source].result = "rejected"
               THEN [post EXCEPT !.stage = "answered", !.thrown = "inventory",
                                 !.status = 500]
               ELSE [post EXCEPT !.stage = "generateItinerary"]
    /\ UNCHANGED <<optimizerVars, middlewareVars,
                   cacheVars, generatorVars, storageVars>>

\* generateItinerary returns an itinerary or raises (the completion request
\* failed or its answer is not JSON)
GenerateItinerary ==
    /\ post.stage = "generateItinerary"
    /\ \E raised \in BOOLEAN :
        post' = IF raised
                THEN [post EXCEPT !.stage = "answered",
                                  !.thrown = "generateItinerary", !.status = 500]
                ELSE [post EXCEPT !.stage = "optimizeBudget"]
    /\ UNCHANGED <<optimizerVars, middlewareVars,
                   cacheVars, generatorVars, storageVars>>

\* optimizeBudget returns (it raises nothing) and the itinerary is answered
Respond ==
    /\ post.stage = "optimizeBudget"
    /\ post' = [post EXCEPT !.stage = "answered", !.status = 200]
    /\ UNCHANGED <<optimizerVars, middlewareVars,
                   cacheVars, generatorVars, storageVars>>

PostNext ==
    \/ POST
    \/ Validate
    \/ PromiseAll
    \/ GenerateItinerary
    \/ Respond

PostSpec == Init /\ [][PostNext]_vars

(***************************************************************************)
(* Properties of the generators                                            *)
(***************************************************************************)
\* C20: hashString returns a non-negative integer of at most 2^31 whose low
\* 16 bits are, up to the sign removed by Math.abs, those of the polynomial
\* sum of the character codes with base 31, and every index seed % n and
\* (seed + k) % n taken from it lies in 0..n-1.
C20_HashNonNegativeIndicesInRange ==
    (request.fn = "hashString" /\ reply.made) =>
        LET seed == reply.value
            RECURSIVE polynomial(_)
            polynomial(i) ==
                IF i = 0 THEN 0
                ELSE (31 * polynomial(i - 1) + charCodeAt(request.str, i)) % 65536
            low == polynomial(Len(request.str))
        IN  /\ seed[1] \in 0..32768
            /\ seed[2] \in 0..65535
            /\ seed[1] = 32768 => seed[2] = 0
            /\ seed[2] \in {low, (65536 - low) % 65536}
            /\ \A n \in {5, 8, 12, 20, 30, 60} :
                   \A k \in {0, 1, 6, 17, 102, 1500} : Rem(seed, k, n) \in 0..(n - 1)

\* the text whose hash is -2^31 before Math.abs has been hashed to 2^31
C20_Witness ==
    /\ request.fn = "hashString"
    /\ request.str = "xfjfxtf"
    /\ reply.made
    /\ reply.value = <<32768, 0>>

\* C19: for every non-negative amount of whole cents, parsing the formatted
\* amount gives the amount back, thousands separators included.
C19_CurrencyRoundTrip ==
    (request.fn = "formatCurrency" /\ reply.made) =>
        reply.value.parsed = [threw |-> FALSE, val |-> Rat(request.cents, 100)]

\* 1234.5 has been formatted with a thousands separator and parsed back
C19_Witness ==
    /\ request.fn = "formatCurrency"
    /\ request.cents = 123450
    /\ reply.made
    /\ reply.value.text = <<"$", "1", ",", "2", "3", "4", ".", "5", "0">>
    /\ reply.value.parsed.val = <<2469, 2>>

\* C14: a second call of a generator with the same arguments returns what
\* the first call returned.
C14_RepeatedCallSameOutput ==
    again.made => again.value = reply.value

\* C15: the condition of a weather report follows its precipitation_chance
\* with inclusive lower bounds: 70 and more is "rainy" ("snowy" when the
\* maximum temperature is below 2), 40 to 69 "cloudy", 20 to 39
\* "partly-cloudy", less than 20 "sunny".
C15_InclusiveLowerBounds ==
    (request.fn = "generateMockWeatherData" /\ reply.made) =>
        LET chance == reply.value.precipitation_chance
        IN  reply.value.condition =
                IF chance >= 70
                THEN (IF reply.value.temperature.max < 2 THEN "snowy" ELSE "rainy")
                ELSE IF chance >= 40 THEN "cloudy"
                ELSE IF chance >= 20 THEN "partly-cloudy"
                ELSE "sunny"

\* C16: the list searchFlights returns and the list searchHotels returns
\* are in ascending order of price from the first item to the last.
C16_AscendingPriceOverWholeList ==
    (request.fn \in {"searchFlights", "searchHotels"} /\ reply.made) =>
        \A i \in 1..(Len(reply.value) - 1) :
            reply.value[i].price <= reply.value[i + 1].price

\* C17: every item searchFlights or searchHotels returns has a price that
\* is a number and is at least 0, whatever the order of the dates and the
\* number of guests or passengers.
C17_PricesNonNegative ==
    (request.fn \in {"searchFlights", "searchHotels"} /\ reply.made) =>
        \A i \in 1..Len(reply.value) :
            ~reply.value[i].nan /\ reply.value[i].price >= 0

(***************************************************************************)
(* Properties of POST /api/itinerary                                       *)
(***************************************************************************)
\* C18: an exception raised inside one of the four inventory calls leaves
\* that call with an empty result, and the request goes on to itinerary
\* generation: it is never answered with the error of a rejected call.
C18_SourceFailureYieldsEmptyResult ==
    /\ \A source \in DOMAIN post.results :
           post.results[source].failed => post.results[source].result = "empty"
    /\ post.thrown # "inventory"

=============================================================================
